---- MODULE Spec2Model ----
(***************************************************************************)
(* A model of the synchronous record cache of @orbit/store: the record     *)
(* store and inverse-relationship index of Cache, the patch and inverse    *)
(* patch operators, the operation processors and the patch pipeline of     *)
(* SyncRecordCache.                                                        *)
(*                                                                         *)
(* Representation.  A JavaScript record {type, id, keys?, attributes?,     *)
(* relationships?} is a TLA+ record with the five fields; a grouping is a  *)
(* function from the field names it holds to their values, and a grouping  *)
(* that is missing is the function with the empty domain (no operation of  *)
(* the cache removes a field, so a grouping that is present but empty can  *)
(* only come from a caller, and the inputs below hold none).  The value of *)
(* relationships[name].data is a tagged value: undefined, null, one        *)
(* identity (hasOne) or an array of identities (hasMany).  null and        *)
(* undefined are sentinels of the same shape as the values they stand in   *)
(* for.                                                                    *)
(***************************************************************************)
EXTENDS Integers, Sequences, FiniteSets, TLC

(***************************************************************************)
(* Values                                                                  *)
(***************************************************************************)
Null == "<null>"
Undefined == "<undefined>"

Id(t, i) == [type |-> t, id |-> i]
NullId == Id(Null, Null)
UndefinedId == Id(Undefined, Undefined)

EmptyMap == [n \in {} |-> Undefined]

DataUndefined == [tag |-> "undefined", one |-> UndefinedId, many |-> <<>>]
DataNull == [tag |-> "null", one |-> NullId, many |-> <<>>]
DataOne(i) == [tag |-> "one", one |-> i, many |-> <<>>]
DataMany(s) == [tag |-> "many", one |-> UndefinedId, many |-> s]

\* identity | null  ->  relationships[name].data
DataOf(i) == IF i = NullId THEN DataNull
             ELSE IF i = UndefinedId THEN DataUndefined
             ELSE DataOne(i)

Rec(t, i, k, a, r) ==
  [type |-> t, id |-> i, keys |-> k, attributes |-> a, relationships |-> r]

UndefinedRecord == Rec(Undefined, Undefined, EmptyMap, EmptyMap, EmptyMap)
NullRecord == Rec(Null, Null, EmptyMap, EmptyMap, EmptyMap)

\* an identity object {type, id} where the code treats it as a record
BareRecord(i) == Rec(i.type, i.id, EmptyMap, EmptyMap, EmptyMap)

isNone(i) == i = NullId \/ i = UndefinedId

\* JavaScript truthiness of relationships[name].data
Truthy(d) == d.tag \in {"one", "many"}

isArray(d) == d.tag = "many"

Range(s) == {s[k] : k \in 1..Len(s)}

\* deepGet(record, [grouping, field]) for the three groupings
deepGetKey(record, field) ==
  IF field \in DOMAIN record.keys THEN record.keys[field] ELSE Undefined

deepGetAttribute(record, field) ==
  IF field \in DOMAIN record.attributes THEN record.attributes[field]
  ELSE Undefined

deepGetData(record, field) ==
  IF field \in DOMAIN record.relationships THEN record.relationships[field]
  ELSE DataUndefined

\* eq of @orbit/utils on two field maps: a field that is missing and a field
\* that holds undefined compare equal
eqFields(a, b, undef) ==
  \A f \in (DOMAIN a) \cup (DOMAIN b) :
     (IF f \in DOMAIN a THEN a[f] ELSE undef)
       = (IF f \in DOMAIN b THEN b[f] ELSE undef)

\* eq on one grouping: a missing grouping equals only a missing grouping
eqGrouping(a, b, undef) ==
  IF a = EmptyMap \/ b = EmptyMap THEN a = b ELSE eqFields(a, b, undef)

\* eq(current, record) on two records
eq(a, b) ==
  /\ a.type = b.type
  /\ a.id = b.id
  /\ eqGrouping(a.keys, b.keys, Undefined)
  /\ eqGrouping(a.attributes, b.attributes, Undefined)
  /\ eqGrouping(a.relationships, b.relationships, DataUndefined)

(***************************************************************************)
(* The schema of the test suites, and one relationship that declares no    *)
(* inverse: the star of a moon                                             *)
(***************************************************************************)
Models == {"planet", "moon", "solarSystem"}

ModelKeys(type) == {"remoteId"}

ModelAttributes(type) ==
  IF type = "planet" THEN {"name", "classification", "revised"} ELSE {"name"}

ModelRelationships(type) ==
  CASE type = "planet" -> {"moons", "solarSystem"}
    [] type = "moon" -> {"planet", "star"}
    [] type = "solarSystem" -> {"planets"}
    [] OTHER -> {}

\* schema.getModel(type).relationships[relationship]
RelationshipDef(type, relationship) ==
  CASE type = "planet" /\ relationship = "moons" ->
         [type |-> "hasMany", model |-> "moon", inverse |-> "planet"]
    [] type = "planet" /\ relationship = "solarSystem" ->
         [type |-> "hasOne", model |-> "solarSystem", inverse |-> "planets"]
    [] type = "moon" /\ relationship = "planet" ->
         [type |-> "hasOne", model |-> "planet", inverse |-> "moons"]
    [] type = "solarSystem" /\ relationship = "planets" ->
         [type |-> "hasMany", model |-> "planet", inverse |-> "solarSystem"]
    [] type = "moon" /\ relationship = "star" ->
         [type |-> "hasOne", model |-> "solarSystem", inverse |-> Undefined]

(***************************************************************************)
(* record.ts                                                               *)
(***************************************************************************)
cloneRecordIdentity(identity) == Id(identity.type, identity.id)

equalRecordIdentities(record1, record2) ==
  \/ isNone(record1) /\ isNone(record2)
  \/ /\ ~isNone(record1)
     /\ ~isNone(record2)
     /\ record1.type = record2.type
     /\ record1.id = record2.id

serializeRecordIdentity(record) == record.type \o ":" \o record.id

serializeRecordIdentities(recordIdentities) ==
  [k \in 1..Len(recordIdentities) |->
     serializeRecordIdentity(recordIdentities[k])]

exclusiveIdentities(identities1, identities2) ==
  SelectSeq(identities1, LAMBDA i : i \notin Range(identities2))

equalRecordIdentitySets(set1, set2) ==
  IF Len(set1) = Len(set2)
  THEN \/ Len(set1) = 0
       \/ LET serialized1 == serializeRecordIdentities(set1)
              serialized2 == serializeRecordIdentities(set2)
          IN /\ Len(exclusiveIdentities(serialized1, serialized2)) = 0
             /\ Len(exclusiveIdentities(serialized2, serialized1)) = 0
  ELSE FALSE

\* exclusiveOfRecordIdentitySet: the identities of set1 whose serialization
\* is not the serialization of a member of set2 (deserialization gives back
\* the identity that was serialized)
exclusiveOfRecordIdentitySet(set1, set2) ==
  SelectSeq(set1, LAMBDA r :
     serializeRecordIdentity(r) \notin Range(serializeRecordIdentities(set2)))

recordIdentitySetIncludes(set, record) ==
  \E k \in 1..Len(set) : equalRecordIdentities(set[k], record)

\* merge({}, current, updates) of @orbit/utils: a field of updates overrides
\* the field of current unless it is undefined and current holds a value
mergeFields(current, updates, undef) ==
  [f \in (DOMAIN current) \cup (DOMAIN updates) |->
     IF f \in DOMAIN updates
          /\ ~(updates[f] = undef /\ f \in DOMAIN current
                 /\ current[f] # undef)
     THEN updates[f]
     ELSE current[f]]

mergeRecords(current, updates) ==
  IF current # UndefinedRecord
  THEN Rec(current.type, current.id,
           mergeFields(current.keys, updates.keys, Undefined),
           mergeFields(current.attributes, updates.attributes, Undefined),
           mergeFields(current.relationships, updates.relationships,
                       DataUndefined))
  ELSE updates

(***************************************************************************)
(* Cache: the record store and the inverse-relationship index.  A cache    *)
(* value c has the fields records (identity -> record, for the stored      *)
(* identities) and inverseRelationships (identity -> back-refs, for the    *)
(* identities that have an entry).                                         *)
(***************************************************************************)
BackRef(record, relationship) ==
  [record |-> record, relationship |-> relationship]

getRecord(c, identity) ==
  IF cloneRecordIdentity(identity) \in DOMAIN c.records
  THEN c.records[cloneRecordIdentity(identity)]
  ELSE UndefinedRecord

getRecords(c, type) ==
  {c.records[i] : i \in {j \in DOMAIN c.records : j.type = type}}

getInverselyRelatedRecords(c, recordIdentity) ==
  IF cloneRecordIdentity(recordIdentity) \in DOMAIN c.inverseRelationships
  THEN c.inverseRelationships[cloneRecordIdentity(recordIdentity)]
  ELSE <<>>

setRecord(c, record) ==
  [c EXCEPT !.records = (cloneRecordIdentity(record) :> record) @@ @]

removeRecord(c, recordIdentity) ==
  [c EXCEPT !.records =
     [i \in (DOMAIN @) \ {cloneRecordIdentity(recordIdentity)} |-> @[i]]]

addInverselyRelatedRecord(c, recordIdentity, inverseRelationship) ==
  LET rels == getInverselyRelatedRecords(c, recordIdentity)
  IN [c EXCEPT !.inverseRelationships =
        (cloneRecordIdentity(recordIdentity)
           :> Append(rels, inverseRelationship)) @@ @]

removeInverselyRelatedRecord(c, recordIdentity, inverseRelationship) ==
  IF cloneRecordIdentity(recordIdentity) \in DOMAIN c.inverseRelationships
  THEN LET rels == c.inverseRelationships[cloneRecordIdentity(recordIdentity)]
           newRels == SelectSeq(rels, LAMBDA r :
              ~(/\ r.record.type = inverseRelationship.record.type
                /\ r.record.id = inverseRelationship.record.id
                /\ r.relationship = inverseRelationship.relationship))
       IN [c EXCEPT !.inverseRelationships =
             (cloneRecordIdentity(recordIdentity) :> newRels) @@ @]
  ELSE c

removeInverseRelationships(c, recordIdentity) ==
  [c EXCEPT !.inverseRelationships =
     [i \in (DOMAIN @) \ {cloneRecordIdentity(recordIdentity)} |-> @[i]]]

\* a faulty variant of _resetInverseRelationships: the index starts empty
_resetInverseRelationships_empty(c, baseCache) ==
  [c EXCEPT !.inverseRelationships = EmptyMap]

\* new ImmutableMap(base._inverseRelationships[type]) for each type: a map
\* of its own with the entries of the base's map
_resetInverseRelationships(c, baseCache) ==
  [c EXCEPT !.inverseRelationships = baseCache.inverseRelationships]

\* cache.reset(base): the records and the index of the base; the key map is
\* the one the cache was configured with
reset(c, baseCache) ==
  _resetInverseRelationships([c EXCEPT !.records = baseCache.records],
                             baseCache)

(***************************************************************************)
(* The key map the cache is configured with: the field keyMap of c maps    *)
(* <<type, keyName, keyValue>> to an id.                                   *)
(***************************************************************************)
\* the fields of record.keys that carry a value
KeyNames(record) == {k \in DOMAIN record.keys : record.keys[k] # Undefined}

\* keyMap.pushRecord(record): learn the keys of the record
pushRecord(c, record) ==
  [c EXCEPT !.keyMap =
     [e \in {<<record.type, k, record.keys[k]>> : k \in KeyNames(record)}
        |-> record.id] @@ @]

\* keyMap.keyToId(type, keyName, keyValue)
keyToId(c, type, keyName, keyValue) ==
  IF <<type, keyName, keyValue>> \in DOMAIN c.keyMap
  THEN c.keyMap[<<type, keyName, keyValue>>]
  ELSE Undefined

(***************************************************************************)
(* SyncRecordAccessor                                                      *)
(***************************************************************************)
\* record && deepGet(record, ['relationships', relationship, 'data'])
currentData(c, identity, relationship) ==
  LET record == getRecord(c, identity)
  IN IF record = UndefinedRecord THEN DataUndefined
     ELSE deepGetData(record, relationship)

getRelatedRecord(c, identity, relationship) ==
  LET relatedRecord == currentData(c, identity, relationship)
  IN IF relatedRecord.tag = "one" THEN relatedRecord.one ELSE NullId

getRelatedRecords(c, identity, relationship) ==
  LET relatedRecords == currentData(c, identity, relationship)
  IN IF relatedRecords.tag = "many" THEN relatedRecords.many ELSE <<>>

\* match is an array (tag "many") or one identity (tag "one")
relatedRecordsInclude(c, identity, relationship, match) ==
  IF isArray(match)
  THEN Len(exclusiveOfRecordIdentitySet(match.many,
             getRelatedRecords(c, identity, relationship))) = 0
  ELSE recordIdentitySetIncludes(
             getRelatedRecords(c, identity, relationship), match.one)

(***************************************************************************)
(* Operations.  Every operation has the same fields; the ones its kind     *)
(* does not use hold undefined.  record is a record (addRecord,            *)
(* replaceRecord) or an identity as a bare record.                         *)
(***************************************************************************)
Operation(op, record, field, value, relationship, relatedRecord,
          relatedRecords) ==
  [op |-> op, record |-> record, field |-> field, value |-> value,
   relationship |-> relationship, relatedRecord |-> relatedRecord,
   relatedRecords |-> relatedRecords]

AddRecord(record) ==
  Operation("addRecord", record, Undefined, Undefined, Undefined,
            UndefinedId, <<>>)

ReplaceRecord(record) ==
  Operation("replaceRecord", record, Undefined, Undefined, Undefined,
            UndefinedId, <<>>)

RemoveRecord(identity) ==
  Operation("removeRecord", BareRecord(identity), Undefined, Undefined,
            Undefined, UndefinedId, <<>>)

ReplaceKey(identity, key, value) ==
  Operation("replaceKey", BareRecord(identity), key, value, Undefined,
            UndefinedId, <<>>)

ReplaceAttribute(identity, attribute, value) ==
  Operation("replaceAttribute", BareRecord(identity), attribute, value,
            Undefined, UndefinedId, <<>>)

AddToRelatedRecords(identity, relationship, relatedRecord) ==
  Operation("addToRelatedRecords", BareRecord(identity), Undefined,
            Undefined, relationship, relatedRecord, <<>>)

RemoveFromRelatedRecords(identity, relationship, relatedRecord) ==
  Operation("removeFromRelatedRecords", BareRecord(identity), Undefined,
            Undefined, relationship, relatedRecord, <<>>)

ReplaceRelatedRecords(identity, relationship, relatedRecords) ==
  Operation("replaceRelatedRecords", BareRecord(identity), Undefined,
            Undefined, relationship, UndefinedId, relatedRecords)

ReplaceRelatedRecord(identity, relationship, relatedRecord) ==
  Operation("replaceRelatedRecord", BareRecord(identity), Undefined,
            Undefined, relationship, relatedRecord, <<>>)

\* "return;" of an inverse patch operator
NoOperation ==
  Operation(Undefined, UndefinedRecord, Undefined, Undefined, Undefined,
            UndefinedId, <<>>)

NoError == "none"

(***************************************************************************)
(* InversePatchOperators.  Each gives [op, error]: the inverse operation,  *)
(* NoOperation when the operator returns nothing, and the error it raises. *)
(***************************************************************************)
Inverse(op) == [op |-> op, error |-> NoError]

Raise(error) == [op |-> NoOperation, error |-> error]

\* equalRecordIdentities on two values of relationships[name].data: an array
\* is an object whose type and id are undefined
equalRecordIdentitiesData(d1, d2) ==
  \/ d1.tag \in {"null", "undefined"} /\ d2.tag \in {"null", "undefined"}
  \/ /\ d1.tag \in {"one", "many"}
     /\ d2.tag \in {"one", "many"}
     /\ d1.one.type = d2.one.type
     /\ d1.one.id = d2.one.id

Inverse_addRecord(c, op) ==
  LET current == getRecord(c, op.record)
  IN IF current = UndefinedRecord
     THEN Inverse(RemoveRecord(cloneRecordIdentity(op.record)))
     ELSE IF eq(current, op.record)
     THEN Inverse(NoOperation)
     ELSE Inverse(ReplaceRecord(current))

\* the attributes or keys of the inverse of replaceRecord
changedFields(replacement, current) ==
  LET fields == {f \in DOMAIN replacement :
                   replacement[f] #
                     (IF f \in DOMAIN current THEN current[f] ELSE Undefined)}
  IN [f \in fields |->
        IF f \in DOMAIN current /\ current[f] # Undefined
        THEN current[f] ELSE Null]

\* the relationship fields of the replacement that do not match
changedRelationships(replacement, current) ==
  {f \in DOMAIN replacement.relationships :
     LET cur == deepGetData(current, f)
         data == replacement.relationships[f]
     IN IF isArray(data)
        THEN ~equalRecordIdentitySets(cur.many, data.many)
        ELSE ~equalRecordIdentitiesData(cur, data)}

\* equalRecordIdentitySets(currentData, data) reads currentData.length
\* a faulty variant of relationshipTypeError: a set comparison that takes an
\* absent list for an empty one and never raises
relationshipTypeError_none(replacement, current) == FALSE

relationshipTypeError(replacement, current) ==
  \E f \in DOMAIN replacement.relationships :
     /\ isArray(replacement.relationships[f])
     /\ ~isArray(deepGetData(current, f))

Inverse_replaceRecord(c, op) ==
  LET current == getRecord(c, op.record)
      replacement == op.record
  IN IF current = UndefinedRecord
     THEN Inverse(RemoveRecord(cloneRecordIdentity(replacement)))
     ELSE IF relationshipTypeError(replacement, current)
     THEN Raise("TypeError")
     ELSE
       LET attributes == changedFields(replacement.attributes,
                                       current.attributes)
           keys == changedFields(replacement.keys, current.keys)
           rels == changedRelationships(replacement, current)
           relationships ==
             [f \in rels |->
                IF deepGetData(current, f) = DataUndefined THEN DataNull
                ELSE deepGetData(current, f)]
           changed == attributes # EmptyMap \/ keys # EmptyMap \/ rels # {}
       IN IF changed
          THEN Inverse(ReplaceRecord(Rec(replacement.type, replacement.id,
                                         keys, attributes, relationships)))
          ELSE Inverse(NoOperation)

Inverse_removeRecord(c, op) ==
  LET current == getRecord(c, op.record)
  IN IF current # UndefinedRecord
     THEN Inverse(AddRecord(current))
     ELSE Inverse(NoOperation)

Inverse_replaceKey(c, op) ==
  LET record == getRecord(c, op.record)
      current == IF record = UndefinedRecord THEN Undefined
                 ELSE deepGetKey(record, op.field)
  IN IF current # op.value
     THEN Inverse(ReplaceKey(cloneRecordIdentity(op.record), op.field,
                             current))
     ELSE Inverse(NoOperation)

Inverse_replaceAttribute(c, op) ==
  LET record == getRecord(c, op.record)
      current == IF record = UndefinedRecord THEN Undefined
                 ELSE deepGetAttribute(record, op.field)
  IN IF current # op.value
     THEN IF record = UndefinedRecord
          THEN Raise("TypeError")
          ELSE Inverse(ReplaceAttribute(Id(record.type, record.id),
                                        op.field, current))
     ELSE Inverse(NoOperation)

\* a faulty variant of the inverse of addToRelatedRecords: the inverse is
\* given whether or not the relationship includes the related record
Inverse_addToRelatedRecords_always(c, op) ==
  Inverse(RemoveFromRelatedRecords(cloneRecordIdentity(op.record),
                                   op.relationship, op.relatedRecord))

Inverse_addToRelatedRecords(c, op) ==
  IF ~relatedRecordsInclude(c, op.record, op.relationship,
                            DataMany(<<op.relatedRecord>>))
  THEN Inverse(RemoveFromRelatedRecords(cloneRecordIdentity(op.record),
                                        op.relationship, op.relatedRecord))
  ELSE Inverse(NoOperation)

\* a faulty variant of the inverse of removeFromRelatedRecords: the inverse
\* is given whether or not the relationship includes the related record
Inverse_removeFromRelatedRecords_always(c, op) ==
  Inverse(AddToRelatedRecords(cloneRecordIdentity(op.record),
                              op.relationship, op.relatedRecord))

Inverse_removeFromRelatedRecords(c, op) ==
  IF relatedRecordsInclude(c, op.record, op.relationship,
                           DataOne(op.relatedRecord))
  THEN Inverse(AddToRelatedRecords(cloneRecordIdentity(op.record),
                                   op.relationship, op.relatedRecord))
  ELSE Inverse(NoOperation)

Inverse_replaceRelatedRecords(c, op) ==
  LET currentRelatedRecords ==
        getRelatedRecords(c, op.record, op.relationship)
  IN IF ~equalRecordIdentitySets(currentRelatedRecords, op.relatedRecords)
     THEN Inverse(ReplaceRelatedRecords(cloneRecordIdentity(op.record),
                                        op.relationship,
                                        currentRelatedRecords))
     ELSE Inverse(NoOperation)

Inverse_replaceRelatedRecord(c, op) ==
  LET currentRelatedRecord ==
        getRelatedRecord(c, op.record, op.relationship)
  IN IF ~equalRecordIdentities(currentRelatedRecord, op.relatedRecord)
     THEN Inverse(ReplaceRelatedRecord(cloneRecordIdentity(op.record),
                                       op.relationship,
                                       currentRelatedRecord))
     ELSE Inverse(NoOperation)

\* InversePatchOperators[operation.op](cache, operation)
InversePatchOperators(c, op) ==
  CASE op.op = "addRecord" -> Inverse_addRecord(c, op)
    [] op.op = "replaceRecord" -> Inverse_replaceRecord(c, op)
    [] op.op = "removeRecord" -> Inverse_removeRecord(c, op)
    [] op.op = "replaceKey" -> Inverse_replaceKey(c, op)
    [] op.op = "replaceAttribute" -> Inverse_replaceAttribute(c, op)
    [] op.op = "addToRelatedRecords" -> Inverse_addToRelatedRecords(c, op)
    [] op.op = "removeFromRelatedRecords" ->
         Inverse_removeFromRelatedRecords(c, op)
    [] op.op = "replaceRelatedRecords" ->
         Inverse_replaceRelatedRecords(c, op)
    [] op.op = "replaceRelatedRecord" -> Inverse_replaceRelatedRecord(c, op)

(***************************************************************************)
(* PatchOperators.  Each gives [c, data]: the cache after the operator and *)
(* the value it returns.                                                   *)
(***************************************************************************)
Patched(c, data) == [c |-> c, data |-> data]

\* record = cache.getRecord(op.record); clone(record) or the bare identity
loadOrSynthesize(c, op) ==
  LET record == getRecord(c, op.record)
  IN IF record # UndefinedRecord THEN record
     ELSE BareRecord(cloneRecordIdentity(op.record))

deepSetData(record, relationship, data) ==
  [record EXCEPT !.relationships = (relationship :> data) @@ @]

\* a faulty variant of addRecord: the record is not pushed to the key map
Patch_addRecord_unpushed(c, op) ==
  Patched(setRecord(c, op.record), op.record)

\* a faulty variant of addRecord: the record is merged into the stored one
Patch_addRecord_merged(c, op) ==
  Patched(pushRecord(setRecord(c, mergeRecords(getRecord(c, op.record),
                                               op.record)),
                     op.record),
          op.record)

Patch_addRecord(c, op) ==
  Patched(pushRecord(setRecord(c, op.record), op.record), op.record)

Patch_replaceRecord(c, op) ==
  LET currentRecord == getRecord(c, op.record)
      mergedRecord == mergeRecords(currentRecord, op.record)
  IN Patched(pushRecord(setRecord(c, mergedRecord), mergedRecord),
             mergedRecord)

Patch_removeRecord(c, op) ==
  LET record == getRecord(c, op.record)
  IN IF record # UndefinedRecord
     THEN Patched(removeRecord(c, op.record), record)
     ELSE Patched(c, NullRecord)

\* a faulty variant of replaceKey: the record is returned and not stored
Patch_replaceKey_unstored(c, op) ==
  Patched(c, [loadOrSynthesize(c, op) EXCEPT
                !.keys = (op.field :> op.value) @@ @])

Patch_replaceKey(c, op) ==
  LET record == [loadOrSynthesize(c, op) EXCEPT
                   !.keys = (op.field :> op.value) @@ @]
  IN Patched(pushRecord(setRecord(c, record), record), record)

Patch_replaceAttribute(c, op) ==
  LET record == [loadOrSynthesize(c, op) EXCEPT
                   !.attributes = (op.field :> op.value) @@ @]
  IN Patched(setRecord(c, record), record)

Patch_addToRelatedRecords(c, op) ==
  LET base == loadOrSynthesize(c, op)
      data == deepGetData(base, op.relationship)
      relatedRecords == IF isArray(data) THEN data.many ELSE <<>>
      record == deepSetData(base, op.relationship,
                            DataMany(Append(relatedRecords, op.relatedRecord)))
  IN Patched(setRecord(c, record), record)

Patch_removeFromRelatedRecords(c, op) ==
  LET current == getRecord(c, op.record)
      data == deepGetData(current, op.relationship)
  IN IF current # UndefinedRecord
     THEN IF isArray(data)
          THEN LET relatedRecords ==
                     SelectSeq(data.many, LAMBDA r :
                        ~equalRecordIdentities(r, op.relatedRecord))
                   record == deepSetData(current, op.relationship,
                                         DataMany(relatedRecords))
               IN Patched(setRecord(c, record), record)
          ELSE Patched(c, current)
     ELSE Patched(c, NullRecord)

Patch_replaceRelatedRecords(c, op) ==
  LET record == deepSetData(loadOrSynthesize(c, op), op.relationship,
                            DataMany(op.relatedRecords))
  IN Patched(setRecord(c, record), record)

\* deepSet gives false, and the record is not stored, when the data already
\* is the value (null or undefined; a cloned identity is never the same object)
Patch_replaceRelatedRecord(c, op) ==
  LET base == loadOrSynthesize(c, op)
      record == deepSetData(base, op.relationship, DataOf(op.relatedRecord))
  IN IF isNone(op.relatedRecord)
          /\ deepGetData(base, op.relationship) = DataOf(op.relatedRecord)
     THEN Patched(c, record)
     ELSE Patched(setRecord(c, record), record)

\* PatchOperators[operation.op](cache, operation)
PatchOperators(c, op) ==
  CASE op.op = "addRecord" -> Patch_addRecord(c, op)
    [] op.op = "replaceRecord" -> Patch_replaceRecord(c, op)
    [] op.op = "removeRecord" -> Patch_removeRecord(c, op)
    [] op.op = "replaceKey" -> Patch_replaceKey(c, op)
    [] op.op = "replaceAttribute" -> Patch_replaceAttribute(c, op)
    [] op.op = "addToRelatedRecords" -> Patch_addToRelatedRecords(c, op)
    [] op.op = "removeFromRelatedRecords" ->
         Patch_removeFromRelatedRecords(c, op)
    [] op.op = "replaceRelatedRecords" -> Patch_replaceRelatedRecords(c, op)
    [] op.op = "replaceRelatedRecord" -> Patch_replaceRelatedRecord(c, op)

(***************************************************************************)
(* SchemaValidationProcessor                                               *)
(***************************************************************************)
\* the identities an operation references
referencedIdentities(op) ==
  {cloneRecordIdentity(op.record)}
    \cup (IF op.op \in {"addToRelatedRecords", "removeFromRelatedRecords",
                        "replaceRelatedRecord"} /\ ~isNone(op.relatedRecord)
          THEN {op.relatedRecord} ELSE {})
    \cup (IF op.op = "replaceRelatedRecords" THEN Range(op.relatedRecords)
          ELSE {})

SchemaValidation_validate(op) ==
  IF \E i \in referencedIdentities(op) : i.type \notin Models
  THEN "SchemaValidationError"
  ELSE IF /\ op.op \in {"addRecord", "replaceRecord"}
          /\ \/ ~(DOMAIN op.record.keys \subseteq ModelKeys(op.record.type))
             \/ ~(DOMAIN op.record.attributes
                    \subseteq ModelAttributes(op.record.type))
             \/ ~(DOMAIN op.record.relationships
                    \subseteq ModelRelationships(op.record.type))
  THEN "SchemaValidationError"
  ELSE NoError

(***************************************************************************)
(* SchemaConsistencyProcessor                                              *)
(***************************************************************************)
\* Object.keys(relationships) of a record of the model
RelationshipOrder(type) ==
  CASE type = "planet" -> <<"moons", "solarSystem">>
    [] type = "moon" -> <<"planet", "star">>
    [] type = "solarSystem" -> <<"planets">>
    [] OTHER -> <<>>

\* the identities relationships[name].data holds
Targets(data) ==
  IF isArray(data) THEN data.many
  ELSE IF data.tag = "one" THEN <<data.one>>
  ELSE <<>>

addRelationshipOp(record, relationship, relatedRecord) ==
  IF RelationshipDef(record.type, relationship).type = "hasMany"
  THEN AddToRelatedRecords(record, relationship, relatedRecord)
  ELSE ReplaceRelatedRecord(record, relationship, relatedRecord)

removeRelationshipOp(record, relationship, relatedRecord) ==
  IF RelationshipDef(record.type, relationship).type = "hasMany"
  THEN RemoveFromRelatedRecords(record, relationship, relatedRecord)
  ELSE ReplaceRelatedRecord(record, relationship, NullId)

\* the operations that add record to the inverse of each of relatedRecords;
\* none for a relationship that declares no inverse
addRelatedRecordsOps(record, relationship, relatedRecords) ==
  LET inverse == RelationshipDef(record.type, relationship).inverse
  IN IF inverse = Undefined THEN <<>>
     ELSE [k \in 1..Len(relatedRecords) |->
             addRelationshipOp(relatedRecords[k], inverse,
                               cloneRecordIdentity(record))]

removeRelatedRecordsOps(record, relationship, relatedRecords) ==
  LET inverse == RelationshipDef(record.type, relationship).inverse
  IN IF inverse = Undefined THEN <<>>
     ELSE [k \in 1..Len(relatedRecords) |->
             removeRelationshipOp(relatedRecords[k], inverse,
                                  cloneRecordIdentity(record))]

\* the propagation of a change of one relationship from old to new data
relationshipDeltaOps(record, relationship, old, new) ==
  IF RelationshipDef(record.type, relationship).type = "hasMany"
  THEN addRelatedRecordsOps(record, relationship,
          exclusiveOfRecordIdentitySet(Targets(new), Targets(old)))
       \o removeRelatedRecordsOps(record, relationship,
          exclusiveOfRecordIdentitySet(Targets(old), Targets(new)))
  ELSE IF equalRecordIdentitiesData(old, new) THEN <<>>
  ELSE removeRelatedRecordsOps(record, relationship, Targets(old))
       \o addRelatedRecordsOps(record, relationship, Targets(new))

RECURSIVE recordDeltaOps(_, _, _, _)
\* the propagation of every relationship of names from the stored record to
\* the record next
recordDeltaOps(c, record, next, names) ==
  IF names = <<>> THEN <<>>
  ELSE relationshipDeltaOps(record, Head(names),
                            currentData(c, record, Head(names)),
                            deepGetData(next, Head(names)))
       \o recordDeltaOps(c, record, next, Tail(names))

SchemaConsistency_before(c, op) ==
  IF op.op = "replaceRelatedRecord"
       /\ ~equalRecordIdentities(
              getRelatedRecord(c, op.record, op.relationship),
              op.relatedRecord)
  THEN removeRelatedRecordsOps(op.record, op.relationship,
          Targets(DataOf(getRelatedRecord(c, op.record, op.relationship))))
  ELSE <<>>

SchemaConsistency_after(c, op) ==
  CASE op.op = "addToRelatedRecords" ->
         addRelatedRecordsOps(op.record, op.relationship,
                              Targets(DataOf(op.relatedRecord)))
    [] op.op = "removeFromRelatedRecords" ->
         removeRelatedRecordsOps(op.record, op.relationship,
                                 Targets(DataOf(op.relatedRecord)))
    [] op.op = "replaceRelatedRecord" ->
         IF equalRecordIdentities(
               getRelatedRecord(c, op.record, op.relationship),
               op.relatedRecord)
         THEN <<>>
         ELSE addRelatedRecordsOps(op.record, op.relationship,
                                   Targets(DataOf(op.relatedRecord)))
    [] op.op = "replaceRelatedRecords" ->
         relationshipDeltaOps(op.record, op.relationship,
            DataMany(getRelatedRecords(c, op.record, op.relationship)),
            DataMany(op.relatedRecords))
    [] op.op = "addRecord" ->
         recordDeltaOps(c, op.record, op.record,
                        RelationshipOrder(op.record.type))
    [] op.op = "replaceRecord" ->
         recordDeltaOps(c, op.record,
                        mergeRecords(getRecord(c, op.record), op.record),
                        RelationshipOrder(op.record.type))
    [] op.op = "removeRecord" ->
         recordDeltaOps(c, op.record, UndefinedRecord,
                        RelationshipOrder(op.record.type))
    [] OTHER -> <<>>

(***************************************************************************)
(* CacheIntegrityProcessor.  A hook gives [c, ops]: the cache after the    *)
(* hook's changes of the inverse-relationship index and the operations it  *)
(* returns.                                                                *)
(***************************************************************************)
Hooked(c, ops) == [c |-> c, ops |-> ops]

RECURSIVE addInverselyRelatedRecords(_, _, _)
\* relatedRecords.forEach(r => cache.addInverselyRelatedRecord(r, backRef))
addInverselyRelatedRecords(c, relatedRecords, backRef) ==
  IF relatedRecords = <<>> THEN c
  ELSE addInverselyRelatedRecords(
         addInverselyRelatedRecord(c, Head(relatedRecords), backRef),
         Tail(relatedRecords), backRef)

RECURSIVE removeInverselyRelatedRecords(_, _, _)
\* relatedRecords.forEach(r => cache.removeInverselyRelatedRecord(r, backRef))
removeInverselyRelatedRecords(c, relatedRecords, backRef) ==
  IF relatedRecords = <<>> THEN c
  ELSE removeInverselyRelatedRecords(
         removeInverselyRelatedRecord(c, Head(relatedRecords), backRef),
         Tail(relatedRecords), backRef)

addInverseRelationship(c, record, relationship, relatedRecord) ==
  IF ~isNone(relatedRecord)
       /\ RelationshipDef(record.type, relationship).inverse # Undefined
  THEN addInverselyRelatedRecord(c, relatedRecord,
          BackRef(cloneRecordIdentity(record), relationship))
  ELSE c

addInverseRelationships(c, record, relationship, relatedRecords) ==
  IF Len(relatedRecords) > 0
       /\ RelationshipDef(record.type, relationship).inverse # Undefined
  THEN addInverselyRelatedRecords(c, relatedRecords,
          BackRef(cloneRecordIdentity(record), relationship))
  ELSE c

RECURSIVE addAllInverseRelationshipsOf(_, _, _)
addAllInverseRelationshipsOf(c, record, names) ==
  IF names = <<>> THEN c
  ELSE addAllInverseRelationshipsOf(
         IF Head(names) \in DOMAIN record.relationships
         THEN addInverselyRelatedRecords(c,
                 Targets(record.relationships[Head(names)]),
                 BackRef(cloneRecordIdentity(record), Head(names)))
         ELSE c,
         record, Tail(names))

addAllInverseRelationships(c, record) ==
  addAllInverseRelationshipsOf(c, record, RelationshipOrder(record.type))

\* relatedRecord is undefined when the caller passes none
removeInverseRelationship(c, record, relationship, relatedRecord) ==
  IF RelationshipDef(record.type, relationship).inverse # Undefined
  THEN LET related == IF relatedRecord = UndefinedId
                      THEN currentData(c, record, relationship)
                      ELSE DataOf(relatedRecord)
       IN removeInverselyRelatedRecords(c, Targets(related),
             BackRef(cloneRecordIdentity(record), relationship))
  ELSE c

CacheIntegrity_removeInverseRelationships(c, record, relationship) ==
  IF RelationshipDef(record.type, relationship).inverse # Undefined
  THEN removeInverselyRelatedRecords(c,
          Targets(currentData(c, record, relationship)),
          BackRef(cloneRecordIdentity(record), relationship))
  ELSE c

RECURSIVE removeAllInverseRelationshipsOf(_, _, _)
removeAllInverseRelationshipsOf(c, recordInCache, names) ==
  IF names = <<>> THEN c
  ELSE removeAllInverseRelationshipsOf(
         IF Head(names) \in DOMAIN recordInCache.relationships
         THEN removeInverselyRelatedRecords(c,
                 Targets(recordInCache.relationships[Head(names)]),
                 BackRef(cloneRecordIdentity(recordInCache), Head(names)))
         ELSE c,
         recordInCache, Tail(names))

\* a faulty variant of removeAllInverseRelationships: the back-refs of the
\* record itself are kept
removeAllInverseRelationships_forward(c, record) ==
  removeAllInverseRelationshipsOf(c, getRecord(c, record),
                                  RelationshipOrder(getRecord(c, record).type))

removeAllInverseRelationships(c, record) ==
  LET recordInCache == getRecord(c, record)
  IN removeInverseRelationships(
        removeAllInverseRelationshipsOf(c, recordInCache,
                                        RelationshipOrder(recordInCache.type)),
        record)

\* a faulty variant of clearInverseRelationshipOps: a hasMany list that
\* holds the record is emptied
clearInverseRelationshipOps_all(c, record) ==
  LET inverseRels == getInverselyRelatedRecords(c, record)
  IN [k \in 1..Len(inverseRels) |->
        IF RelationshipDef(inverseRels[k].record.type,
                           inverseRels[k].relationship).type = "hasMany"
        THEN ReplaceRelatedRecords(inverseRels[k].record,
                                   inverseRels[k].relationship, <<>>)
        ELSE ReplaceRelatedRecord(inverseRels[k].record,
                                  inverseRels[k].relationship, NullId)]

clearInverseRelationshipOps(c, record) ==
  LET inverseRels == getInverselyRelatedRecords(c, record)
  IN [k \in 1..Len(inverseRels) |->
        IF RelationshipDef(inverseRels[k].record.type,
                           inverseRels[k].relationship).type = "hasMany"
        THEN RemoveFromRelatedRecords(inverseRels[k].record,
                                      inverseRels[k].relationship,
                                      cloneRecordIdentity(record))
        ELSE ReplaceRelatedRecord(inverseRels[k].record,
                                  inverseRels[k].relationship, NullId)]

CacheIntegrity_after(c, op) ==
  CASE op.op = "replaceRelatedRecord" ->
         Hooked(removeInverseRelationship(c, op.record, op.relationship,
                                          UndefinedId), <<>>)
    [] op.op = "replaceRelatedRecords" ->
         Hooked(CacheIntegrity_removeInverseRelationships(c, op.record,
                                                          op.relationship),
                <<>>)
    [] op.op = "removeFromRelatedRecords" ->
         Hooked(removeInverseRelationship(c, op.record, op.relationship,
                                          op.relatedRecord), <<>>)
    [] op.op = "removeRecord" ->
         Hooked(removeAllInverseRelationships(c, op.record),
                clearInverseRelationshipOps(c, op.record))
    [] op.op = "replaceRecord" ->
         Hooked(removeAllInverseRelationships(c, op.record), <<>>)
    [] OTHER -> Hooked(c, <<>>)

CacheIntegrity_finally(c, op) ==
  CASE op.op = "replaceRelatedRecord" ->
         Hooked(addInverseRelationship(c, op.record, op.relationship,
                                       op.relatedRecord), <<>>)
    [] op.op = "replaceRelatedRecords" ->
         Hooked(addInverseRelationships(c, op.record, op.relationship,
                                        op.relatedRecords), <<>>)
    [] op.op = "addToRelatedRecords" ->
         Hooked(addInverseRelationship(c, op.record, op.relationship,
                                       op.relatedRecord), <<>>)
    [] op.op = "addRecord" ->
         Hooked(addAllInverseRelationships(c, op.record), <<>>)
    [] op.op = "replaceRecord" ->
         Hooked(addAllInverseRelationships(c, op.record), <<>>)
    [] OTHER -> Hooked(c, <<>>)

(***************************************************************************)
(* SyncRecordCache: the patch pipeline.  A context x is a cache extended   *)
(* with the PatchResult under construction (inverse, data), the error that *)
(* was raised, and a record of the run: calls[n] describes the n-th call   *)
(* of _applyOperation, log lists the steps <<step, n, processor>> in the   *)
(* order they happen, events lists the emitted patch events.               *)
(***************************************************************************)
\* the most calls of _applyOperation one patch may make
MaxOperations == 60

Processors == <<"SchemaValidation", "SchemaConsistency", "CacheIntegrity">>

Context(c) ==
  [records |-> c.records, inverseRelationships |-> c.inverseRelationships,
   keyMap |-> c.keyMap,
   inverse |-> <<>>, data |-> <<>>, error |-> NoError,
   calls |-> <<>>, log |-> <<>>, events |-> <<>>, returns |-> <<>>,
   cur |-> 0, via |-> "patch"]

CacheOf(x) ==
  [records |-> x.records, inverseRelationships |-> x.inverseRelationships,
   keyMap |-> x.keyMap]

Log(x, step, n, processor) ==
  [x EXCEPT !.log = Append(@, <<step, n, processor>>)]

\* the cache of hooked replaces the cache of x
WithCache(x, c) ==
  [x EXCEPT !.records = c.records,
            !.inverseRelationships = c.inverseRelationships,
            !.keyMap = c.keyMap]

\* a faulty variant of validate: the validate hooks are not called
validate_skip(x, n, operation) ==
  Log(Log(Log(x, "validate", n, 1), "validate", n, 2), "validate", n, 3)

\* this._processors.forEach(processor => processor.validate(operation))
validate(x, n, operation) ==
  LET error == SchemaValidation_validate(operation)
      x1 == Log(x, "validate", n, 1)
  IN IF error # NoError THEN [x1 EXCEPT !.error = error]
     ELSE Log(Log(x1, "validate", n, 2), "validate", n, 3)

\* this._processors.map(processor => processor.before(operation))
before(x, n, operation) ==
  Hooked(Log(Log(Log(x, "before", n, 1), "before", n, 2), "before", n, 3),
         << <<>>, SchemaConsistency_before(x, operation), <<>> >>)

\* a faulty variant of after: the after hooks are evaluated and the
\* sub-operations they return are dropped
after_unstaged(x, n, operation) ==
  LET ci == CacheIntegrity_after(x, operation)
  IN Hooked(Log(Log(Log(ci.c, "after", n, 1), "after", n, 2), "after", n, 3),
            << <<>>, <<>>, <<>> >>)

\* this._processors.map(processor => processor.after(operation))
after(x, n, operation) ==
  LET ci == CacheIntegrity_after(x, operation)
  IN Hooked(Log(Log(Log(ci.c, "after", n, 1), "after", n, 2), "after", n, 3),
            << <<>>, SchemaConsistency_after(x, operation), ci.ops >>)

\* this._processors.forEach(processor => processor.immediate(operation))
immediate(x, n, operation) ==
  Log(Log(Log(x, "immediate", n, 1), "immediate", n, 2), "immediate", n, 3)

\* this._processors.map(processor => processor.finally(operation))
finally(x, n, operation) ==
  LET ci == CacheIntegrity_finally(x, operation)
  IN Hooked(Log(Log(Log(ci.c, "finally", n, 1), "finally", n, 2),
                "finally", n, 3),
            << <<>>, <<>>, ci.ops >>)

\* if (primary) { result.data.push(data) }
pushData(patched, n, primary) ==
  [c |-> [(IF primary
           THEN [Log(patched.c, "operator", n, 0) EXCEPT
                   !.data = Append(@, patched.data)]
           ELSE Log(patched.c, "operator", n, 0))
            EXCEPT !.returns = Append(@, [n |-> n, data |-> patched.data])],
   data |-> patched.data]

\* a faulty variant of operator: the data is pushed for sub-operations too
operator_always(x, n, operation, primary) ==
  pushData(PatchOperators(x, operation), n, TRUE)

\* let data = operator(this, operation); if (primary) result.data.push(data)
operator(x, n, operation, primary) ==
  pushData(PatchOperators(x, operation), n, primary)

\* a faulty variant of emit: the event is emitted when the sub-operations
\* of the operation have run, so nothing is emitted at this step
emit_none(x, n, operation, data) == Log(x, "emit", n, 0)

\* this.emit('patch', operation, data)
emit(x, n, operation, data) ==
  [Log(x, "emit", n, 0) EXCEPT
     !.events = Append(@, [n |-> n, operation |-> operation, data |-> data])]

RECURSIVE _applyOperation(_, _, _)
RECURSIVE _applyOperations(_, _, _)
RECURSIVE applyEach(_, _, _, _)

\* opsLists.forEach(ops => this._applyOperations(ops, result)) in the step
\* via of call n
applyEach(x, opsLists, n, via) ==
  IF opsLists = <<>> THEN x
  ELSE applyEach(
         [_applyOperations([x EXCEPT !.cur = n, !.via = via],
                           Head(opsLists), FALSE)
            EXCEPT !.cur = n],
         Tail(opsLists), n, via)

\* a faulty variant of applyHooked: the before and finally hooks are not
\* evaluated together, the hook of the last processor is evaluated when the
\* sub-operations of the processors before it have been applied
applyHooked_interleaved(hooked, n, via) ==
  IF via = "after" THEN applyEach(hooked.c, hooked.ops, n, via)
  ELSE LET last == hooked.c.log[Len(hooked.c.log)]
           x == [hooked.c EXCEPT !.log = SubSeq(@, 1, Len(@) - 1)]
           y == applyEach(x, hooked.ops, n, via)
       IN [y EXCEPT !.log = Append(@, last)]

\* the sub-operations that the hooks of a step returned are applied
applyHooked(hooked, n, via) == applyEach(hooked.c, hooked.ops, n, via)

\* a faulty variant of _applyOperations: the last operation is applied first
_applyOperations_reversed(x, ops, primary) ==
  IF ops = <<>> THEN x
  ELSE [_applyOperation(_applyOperations(x, Tail(ops), primary), Head(ops),
                        primary)
          EXCEPT !.cur = x.cur, !.via = x.via]

\* ops.forEach(op => this._applyOperation(op, result, primary)): each call
\* is made from the call and the step that the list was applied in
_applyOperations(x, ops, primary) ==
  IF ops = <<>> THEN x
  ELSE _applyOperations(
         [_applyOperation(x, Head(ops), primary)
            EXCEPT !.cur = x.cur, !.via = x.via],
         Tail(ops), primary)

\* result.inverse.push(inverseOp)
pushInverse(x, n, inverseOp) ==
  [Log(x, "inverse", n, 0) EXCEPT !.inverse = Append(@, inverseOp)]

\* a faulty variant of effective: the after hooks are evaluated once the
\* patch operator has been applied
effective_operatorFirst(x, n, operation, primary, inverseOp) ==
  LET x3 == applyHooked(before(pushInverse(x, n, inverseOp), n, operation),
                        n, "before")
      applied == operator(x3, n, operation, primary)
      preparedOps == after(applied.c, n, operation)
      x5 == emit(immediate(preparedOps.c, n, operation), n, operation,
                 applied.data)
      x6 == applyEach(x5, preparedOps.ops, n, "after")
  IN IF x3.error # NoError THEN x3
     ELSE IF x6.error # NoError THEN x6
     ELSE applyHooked(finally(x6, n, operation), n, "finally")

\* the finally hooks and their sub-operations, after the prepared operations
performFinally(x6, n, operation) ==
  IF x6.error # NoError THEN x6
  ELSE applyHooked(finally(x6, n, operation), n, "finally")

\* a faulty variant of performPrepared: the prepared operations are dropped
performPrepared_dropped(applied, preparedOps, n, operation) ==
  performFinally(
    emit(immediate(applied.c, n, operation), n, operation, applied.data),
    n, operation)

\* the immediate hooks, the patch event and the prepared operations, after
\* the patch operator
performPrepared(applied, preparedOps, n, operation) ==
  performFinally(
    applyEach(emit(immediate(applied.c, n, operation), n, operation,
                   applied.data),
              preparedOps, n, "after"),
    n, operation)

\* the patch operator, after the after hooks were evaluated
performOperator(preparedOps, n, operation, primary) ==
  performPrepared(operator(preparedOps.c, n, operation, primary),
                  preparedOps.ops, n, operation)

\* the after hooks, evaluated after the before sub-operations
prepareAfter(x3, n, operation, primary) ==
  IF x3.error # NoError THEN x3
  ELSE performOperator(after(x3, n, operation), n, operation, primary)

\* if (inverseOp) { ... }: the operation takes effect
effective(x, n, operation, primary, inverseOp) ==
  prepareAfter(
    applyHooked(before(pushInverse(x, n, inverseOp), n, operation),
                n, "before"),
    n, operation, primary)

\* a faulty variant of noop: the patch operator is applied although the
\* inverse is absent
noop_operator(x, n, operation, primary) ==
  operator(x, n, operation, primary).c

\* else if (primary) { result.data.push(null) }: the operation is a no-op
noop(x, n, operation, primary) ==
  IF primary
  THEN [Log(x, "noop", n, 0) EXCEPT !.data = Append(@, NullRecord)]
  ELSE Log(x, "noop", n, 0)

\* the n-th call of _applyOperation, with the inverse it computed
Call(x, operation, primary, inverseOp) ==
  [x EXCEPT !.calls = Append(@,
     [operation |-> operation, primary |-> primary, parent |-> x.cur,
      via |-> x.via, inverse |-> inverseOp])]

\* if (inverseOp) { ... } else if (primary) { ... }
inverted(x1, n, operation, primary, inverseOp) ==
  IF inverseOp.error # NoError
  THEN [Call(x1, operation, primary, NoOperation) EXCEPT
          !.error = inverseOp.error]
  ELSE IF inverseOp.op # NoOperation
  THEN effective(Call(x1, operation, primary, inverseOp.op), n, operation,
                 primary, inverseOp.op)
  ELSE noop(Call(x1, operation, primary, NoOperation), n, operation, primary)

\* const inverseOp = inverseTransform(this, operation), once the validate
\* hooks have passed
validated(x1, n, operation, primary) ==
  IF x1.error # NoError THEN Call(x1, operation, primary, NoOperation)
  ELSE inverted(x1, n, operation, primary,
                InversePatchOperators(x1, operation))

_applyOperation(x, operation, primary) ==
  IF x.error # NoError THEN x
  ELSE IF Len(x.calls) >= MaxOperations THEN [x EXCEPT !.error = "Diverged"]
  ELSE validated(validate(x, Len(x.calls) + 1, operation),
                 Len(x.calls) + 1, operation, primary)

\* a faulty variant of reverse: the sequence is left in the order produced
reverse_none(s) == s

\* Sequence reversal: result.inverse.reverse()
reverse(s) == [k \in 1..Len(s) |-> s[Len(s) + 1 - k]]

\* result.inverse.reverse(); return result (when no operation raised)
returned(x) ==
  IF x.error # NoError THEN x ELSE [x EXCEPT !.inverse = reverse(@)]

\* a faulty variant of patch: the cache is restored when an operation raises
patch_rollback(c, operations) ==
  LET x == returned(_applyOperations(Context(c), operations, TRUE))
  IN IF x.error # NoError THEN WithCache(x, c) ELSE x

\* patch(operations): the context when patch returns or raises
patch(c, operations) ==
  returned(_applyOperations(Context(c), operations, TRUE))

(***************************************************************************)
(* QueryOperators.  Each gives [data, error]: the value the operator       *)
(* returns, or the exception it throws.                                    *)
(***************************************************************************)
FindRecord(record) == [op |-> "findRecord", record |-> record]

Found(data) == [data |-> data, error |-> NoError]

\* a faulty variant of findRecord: what getRecord gives is returned as it is
findRecord_unchecked(c, expression) ==
  Found(getRecord(c, expression.record))

findRecord(c, expression) ==
  LET currentRecord == getRecord(c, expression.record)
  IN IF currentRecord = UndefinedRecord
     THEN [data |-> UndefinedRecord, error |-> "RecordNotFoundException"]
     ELSE Found(currentRecord)

(***************************************************************************)
(* The values of attributes in queries, and JavaScript's comparisons of    *)
(* them.  A number n is the value Number(n); null and undefined are Null   *)
(* and Undefined; every other value is a string.                           *)
(***************************************************************************)
Numbers == {0 - 1, 0, 1, 3, 5}

Number(n) ==
  CASE n = 0 - 1 -> "-1" [] n = 0 -> "0" [] n = 1 -> "1" [] n = 3 -> "3"
    [] n = 5 -> "5"

\* the strings of the queries, in the order of their code units
Strings == <<"Earth", "Io", "Jupiter">>

isNoneValue(v) == v = Null \/ v = Undefined

IsString(v) == \E k \in 1..Len(Strings) : Strings[k] = v

\* ToNumber(v): null is 0, undefined and the strings of the queries are NaN
ToNumber(v) ==
  IF \E n \in Numbers : Number(n) = v
  THEN [nan |-> FALSE, n |-> CHOOSE n \in Numbers : Number(n) = v]
  ELSE [nan |-> (v # Null), n |-> 0]

\* v1 < v2
lessThan(v1, v2) ==
  IF IsString(v1) /\ IsString(v2)
  THEN (CHOOSE k \in 1..Len(Strings) : Strings[k] = v1)
         < (CHOOSE k \in 1..Len(Strings) : Strings[k] = v2)
  ELSE /\ ~ToNumber(v1).nan /\ ~ToNumber(v2).nan
       /\ ToNumber(v1).n < ToNumber(v2).n

\* v1 <= v2
lessThanOrEqual(v1, v2) ==
  IF IsString(v1) /\ IsString(v2)
  THEN (CHOOSE k \in 1..Len(Strings) : Strings[k] = v1)
         <= (CHOOSE k \in 1..Len(Strings) : Strings[k] = v2)
  ELSE /\ ~ToNumber(v1).nan /\ ~ToNumber(v2).nan
       /\ ToNumber(v1).n <= ToNumber(v2).n

(***************************************************************************)
(* findRecords: the filter, the sort and the page.  getRecords gives the   *)
(* records in no specified order, so the operators work on the set of      *)
(* records and give the set of the lists the caller may get.               *)
(***************************************************************************)
\* a filter: field is the attribute or the relation, records the record or
\* the records a relationship filter expects
Filter(kind, field, op, value, records) ==
  [kind |-> kind, field |-> field, op |-> op, value |-> value,
   records |-> records]

SortSpecifier(kind, attribute, order) ==
  [kind |-> kind, attribute |-> attribute, order |-> order]

\* page: <<>> when the expression has none; offset and limit: <<>> when
\* undefined, <<n>> otherwise
Page(offset, limit) == <<[offset |-> offset, limit |-> limit]>>

FindRecords(type, filter, sort, page) ==
  [op |-> "findRecords", type |-> type, filter |-> filter, sort |-> sort,
   page |-> page]

FindRelatedRecord(record, relationship) ==
  [op |-> "findRelatedRecord", record |-> record,
   relationship |-> relationship]

FindRelatedRecords(record, relationship) ==
  [op |-> "findRelatedRecords", record |-> record,
   relationship |-> relationship]

Thrown(data, error) == [data |-> data, error |-> error]

\* expected.some(e => actual.some(a => a.id === e.id && a.type === e.type))
someExpected(actual, expected) ==
  \E e \in Range(expected) : \E a \in Range(actual) : a = e

\* applyFilter on an attribute
applyAttributeFilter(actual, filter) ==
  CASE filter.op = "equal" -> Found(actual = filter.value)
    [] filter.op = "gt" -> Found(lessThan(filter.value, actual))
    [] filter.op = "gte" -> Found(lessThanOrEqual(filter.value, actual))
    [] filter.op = "lt" -> Found(lessThan(actual, filter.value))
    [] filter.op = "lte" -> Found(lessThanOrEqual(actual, filter.value))
    [] OTHER -> Thrown(FALSE, "QueryExpressionParseError")

\* applyFilter on a to-many relation; a relationship the record lacks is
\* the empty array, and reading a member of data that is null or one
\* identity is a TypeError
applyRelatedRecordsFilter(relation, filter) ==
  IF filter.op \notin {"equal", "all", "some", "none"}
  THEN Thrown(FALSE, "QueryExpressionParseError")
  ELSE IF relation.tag = "null" /\ filter.op = "equal"
  THEN Thrown(FALSE, "TypeError")
  ELSE IF relation.tag \in {"null", "one"}
  THEN IF filter.op = "equal" THEN Found(FALSE)
       ELSE IF filter.records = <<>>
       THEN Found(filter.op \in {"all", "none"})
       ELSE Thrown(FALSE, "TypeError")
  ELSE CASE filter.op = "equal" ->
              Found(/\ Len(relation.many) = Len(filter.records)
                    /\ \A e \in Range(filter.records) :
                          e \in Range(relation.many))
         [] filter.op = "all" ->
              Found(\A e \in Range(filter.records) :
                       e \in Range(relation.many))
         [] filter.op = "some" ->
              Found(someExpected(relation.many, filter.records))
         [] filter.op = "none" ->
              Found(~someExpected(relation.many, filter.records))

\* applyFilter on a to-one relation
applyRelatedRecordFilter(relation, filter) ==
  IF filter.op # "equal" THEN Thrown(FALSE, "QueryExpressionParseError")
  ELSE IF relation.tag = "null" /\ filter.records # <<>>
  THEN Thrown(FALSE, "TypeError")
  ELSE Found(/\ relation.tag = "one"
             /\ \E e \in Range(filter.records) : relation.one = e)

\* applyFilter(record, filter): [data, error], data the boolean it returns
applyFilter(record, filter) ==
  IF filter.kind = "attribute"
  THEN applyAttributeFilter(deepGetAttribute(record, filter.field), filter)
  ELSE IF filter.kind = "relatedRecords"
  THEN applyRelatedRecordsFilter(deepGetData(record, filter.field), filter)
  ELSE IF filter.kind = "relatedRecord"
  THEN applyRelatedRecordFilter(deepGetData(record, filter.field), filter)
  ELSE Found(FALSE)

RECURSIVE applyFilters(_, _)
\* the loop of filterRecords over the filters, for one record
applyFilters(record, filters) ==
  IF filters = <<>> THEN Found(TRUE)
  ELSE IF applyFilter(record, Head(filters)) # Found(TRUE)
  THEN applyFilter(record, Head(filters))
  ELSE applyFilters(record, Tail(filters))

\* filterRecords(records, filters): [data, error], data the set that passes
filterRecords(records, filters) ==
  IF \E record \in records : applyFilters(record, filters).error # NoError
  THEN Thrown({}, applyFilters(
                    CHOOSE record \in records :
                       applyFilters(record, filters).error # NoError,
                    filters).error)
  ELSE Found({record \in records : applyFilters(record, filters).data})

RECURSIVE compare(_, _, _)
\* the comparison function that sortRecords hands to sort
compare(record1, record2, sortSpecifiers) ==
  IF sortSpecifiers = <<>> THEN 0
  ELSE LET value1 == deepGetAttribute(record1, Head(sortSpecifiers).attribute)
           value2 == deepGetAttribute(record2, Head(sortSpecifiers).attribute)
           comparisonOrder ==
             IF Head(sortSpecifiers).order = "descending" THEN 0 - 1 ELSE 1
       IN IF lessThan(value1, value2) THEN 0 - comparisonOrder
          ELSE IF lessThan(value2, value1) THEN comparisonOrder
          ELSE IF isNoneValue(value1) /\ ~isNoneValue(value2)
          THEN comparisonOrder
          ELSE IF isNoneValue(value2) /\ ~isNoneValue(value1)
          THEN 0 - comparisonOrder
          ELSE compare(record1, record2, Tail(sortSpecifiers))

\* the lists that hold each record of the set once
Orderings(records) ==
  {s \in [1..Cardinality(records) -> records] :
     \A i, j \in 1..Cardinality(records) : i # j => s[i] # s[j]}

\* the comparison function is consistent on the records: sort orders them
\* by it; otherwise the order that sort gives is implementation-defined
Consistent(records, sortSpecifiers) ==
  /\ \A a, b \in records :
        compare(a, b, sortSpecifiers) = 0 - compare(b, a, sortSpecifiers)
  /\ \A a, b, d \in records :
        /\ (compare(a, b, sortSpecifiers) = 0
              /\ compare(b, d, sortSpecifiers) = 0)
             => compare(a, d, sortSpecifiers) = 0
        /\ (compare(a, b, sortSpecifiers) < 0
              /\ compare(b, d, sortSpecifiers) < 0)
             => compare(a, d, sortSpecifiers) < 0

\* a faulty variant of sortRecords: the records are left as they come
sortRecords_unsorted(records, sortSpecifiers) == Found(Orderings(records))

\* sortRecords(records, sortSpecifiers): [data, error], data the set of the
\* lists that sort may give
sortRecords(records, sortSpecifiers) ==
  IF records # {} /\ \E i \in 1..Len(sortSpecifiers) :
                        sortSpecifiers[i].kind # "attribute"
  THEN Thrown({}, "QueryExpressionParseError")
  ELSE IF Consistent(records, sortSpecifiers)
  THEN Found({s \in Orderings(records) :
                \A i, j \in 1..Len(s) :
                   i < j => compare(s[i], s[j], sortSpecifiers) <= 0})
  ELSE Found(Orderings(records))

\* records.slice(begin, end)
slice(records, begin, end) ==
  IF begin >= Len(records) \/ end <= begin THEN <<>>
  ELSE SubSeq(records, begin + 1,
              IF end < Len(records) THEN end ELSE Len(records))

\* paginateRecords(records, paginationOptions): [data, error]
paginateRecords(records, paginationOptions) ==
  IF paginationOptions.limit # <<>>
  THEN Found(slice(records,
                   IF paginationOptions.offset = <<>> THEN 0
                   ELSE paginationOptions.offset[1],
                   (IF paginationOptions.offset = <<>> THEN 0
                    ELSE paginationOptions.offset[1])
                     + paginationOptions.limit[1]))
  ELSE Thrown(<<>>, "QueryExpressionParseError")

\* the page of each sorted list
paginated(sorted, page) ==
  IF sorted.error # NoError THEN {Thrown(<<>>, sorted.error)}
  ELSE IF page = <<>> THEN {Found(s) : s \in sorted.data}
  ELSE {paginateRecords(s, page[1]) : s \in sorted.data}

\* the sorted lists of the filtered records; without a sort the records
\* come in the order of getRecords
sortedFiltered(filtered, sort) ==
  IF filtered.error # NoError THEN Thrown({}, filtered.error)
  ELSE IF sort = <<>> THEN Found(Orderings(filtered.data))
  ELSE sortRecords(filtered.data, sort)

\* QueryOperators.findRecords: the set of the outcomes [data, error]
findRecords(c, expression) ==
  paginated(
    sortedFiltered(
      IF expression.filter = <<>> THEN Found(getRecords(c, expression.type))
      ELSE filterRecords(getRecords(c, expression.type), expression.filter),
      expression.sort),
    expression.page)

findRelatedRecords(c, expression) ==
  LET relatedIds == getRelatedRecords(c, expression.record,
                                      expression.relationship)
  IN Found([k \in 1..Len(relatedIds) |-> getRecord(c, relatedIds[k])])

findRelatedRecord(c, expression) ==
  LET relatedId == getRelatedRecord(c, expression.record,
                                    expression.relationship)
  IN IF ~isNone(relatedId) THEN Found(getRecord(c, relatedId))
     ELSE Found(NullRecord)

\* QueryOperators[expression.op](cache, expression): the set of the outcomes
_query(c, expression) ==
  CASE expression.op = "findRecord" -> {findRecord(c, expression)}
    [] expression.op = "findRecords" -> findRecords(c, expression)
    [] expression.op = "findRelatedRecords" ->
         {findRelatedRecords(c, expression)}
    [] expression.op = "findRelatedRecord" ->
         {findRelatedRecord(c, expression)}
    [] OTHER -> {Thrown(UndefinedRecord, "Error")}

(***************************************************************************)
(* The caller's inputs                                                     *)
(***************************************************************************)
Jupiter == Id("planet", "jupiter")
Earth == Id("planet", "earth")
Io == Id("moon", "io")
Europa == Id("moon", "europa")
SolarSystem == Id("solarSystem", "ss")
\* an identity of a model the schema does not declare
Ceres == Id("asteroid", "ceres")

Identities == {Jupiter, Earth, Io, Europa, SolarSystem}

Record(i, k, a, r) == Rec(i.type, i.id, k, a, r)

InputRecords ==
  { Record(Jupiter, "remoteId" :> "j", "name" :> "Jupiter", EmptyMap),
    Record(Jupiter, EmptyMap, "classification" :> "gas giant", EmptyMap),
    Record(Jupiter, EmptyMap, EmptyMap, "moons" :> DataMany(<<Io, Europa>>)),
    Record(Jupiter, EmptyMap, "name" :> "Jupiter",
           "solarSystem" :> DataOne(SolarSystem)),
    Record(Earth, EmptyMap, EmptyMap, "solarSystem" :> DataOne(SolarSystem)),
    Record(Earth, "remoteId" :> "e", "name" :> "Earth", EmptyMap),
    Record(Io, EmptyMap, EmptyMap, "planet" :> DataOne(Jupiter)),
    Record(Io, EmptyMap, "name" :> "Io", EmptyMap),
    Record(Europa, EmptyMap, EmptyMap, "planet" :> DataOne(Jupiter)),
    Record(SolarSystem, EmptyMap, EmptyMap, EmptyMap),
    Record(SolarSystem, EmptyMap, EmptyMap,
           "planets" :> DataMany(<<Earth, Jupiter>>)) }

\* records that the schema does not admit
UndeclaredRecords ==
  { Record(Ceres, EmptyMap, EmptyMap, EmptyMap),
    Record(Jupiter, EmptyMap, "mass" :> "heavy", EmptyMap),
    Record(Io, "localId" :> "i", EmptyMap, EmptyMap),
    Record(Earth, EmptyMap, EmptyMap, "rings" :> DataMany(<<>>)) }

InputOperations ==
  {AddRecord(r) : r \in InputRecords \cup UndeclaredRecords}
    \cup {ReplaceRecord(r) : r \in InputRecords \cup UndeclaredRecords}
    \cup {RemoveRecord(i) : i \in {Jupiter, Io, SolarSystem, Ceres}}
    \cup {ReplaceKey(Jupiter, "remoteId", v) : v \in {"j", "k"}}
    \cup {ReplaceAttribute(i, "name", "Planet") : i \in {Jupiter, Ceres}}
    \cup {AddToRelatedRecords(Jupiter, "moons", m) : m \in {Io, Europa}}
    \cup {AddToRelatedRecords(SolarSystem, "planets", Earth)}
    \cup {RemoveFromRelatedRecords(Jupiter, "moons", m) : m \in {Io, Ceres}}
    \cup {RemoveFromRelatedRecords(SolarSystem, "planets", Earth)}
    \cup {RemoveFromRelatedRecords(Ceres, "moons", Io)}
    \cup {ReplaceRelatedRecords(Jupiter, "moons", l) :
            l \in {<<>>, <<Europa>>, <<Europa, Io>>}}
    \cup {ReplaceRelatedRecord(Io, "planet", p) :
            p \in {Jupiter, Earth, NullId}}
    \cup {ReplaceRelatedRecord(Earth, "solarSystem", p) :
            p \in {SolarSystem, NullId}}

\* the batches of more than one operation
InputBatches ==
  { <<AddRecord(Record(SolarSystem, EmptyMap, EmptyMap, EmptyMap)),
      AddRecord(Record(Earth, EmptyMap, EmptyMap,
                       "solarSystem" :> DataOne(SolarSystem))),
      AddRecord(Record(Jupiter, EmptyMap, "name" :> "Jupiter",
                       "solarSystem" :> DataOne(SolarSystem))),
      AddRecord(Record(Io, EmptyMap, EmptyMap, "planet" :> DataOne(Jupiter)))>>,
    <<RemoveRecord(Jupiter),
      AddRecord(Record(Io, EmptyMap, EmptyMap, "planet" :> DataOne(Jupiter)))>>,
    <<AddRecord(Record(Io, EmptyMap, "name" :> "Io", EmptyMap)),
      AddRecord(Record(Ceres, EmptyMap, EmptyMap, EmptyMap)),
      AddRecord(Record(Earth, EmptyMap, "name" :> "Earth", EmptyMap))>>,
    <<AddRecord(Record(Jupiter, EmptyMap, EmptyMap,
                       "moons" :> DataMany(<<Io, Europa>>))),
      ReplaceAttribute(Jupiter, "name", "Planet"),
      ReplaceAttribute(Jupiter, "name", "Planet"),
      RemoveRecord(Io)>>,
    <<AddRecord(Record(Io, EmptyMap, EmptyMap, "planet" :> DataOne(Jupiter))),
      AddRecord(Record(Jupiter, EmptyMap, "name" :> "Jupiter",
                       "solarSystem" :> DataOne(SolarSystem))),
      AddRecord(Record(Earth, EmptyMap, EmptyMap,
                       "solarSystem" :> DataOne(SolarSystem))),
      AddRecord(Record(SolarSystem, EmptyMap, EmptyMap, EmptyMap))>>,
    <<AddRecord(Record(Earth, EmptyMap, EmptyMap,
                       "solarSystem" :> DataOne(SolarSystem))),
      AddRecord(Record(SolarSystem, EmptyMap, EmptyMap,
                       "planets" :> DataMany(<<Earth, Jupiter>>)))>> }

Inputs == {<<o>> : o \in InputOperations} \cup InputBatches

InputExpressions == {FindRecord(i) : i \in Identities \cup {Ceres}}

(***************************************************************************)
(* The state: the cache, and the last call of patch (run): the operations  *)
(* it was given, the cache before it, what it returned or raised and the   *)
(* record of its steps.  A run of kind "inverse" applied the inverse list  *)
(* the run before it returned; origin is the cache before that run.        *)
(* raised tells whether some call of patch has raised so far.  queried is  *)
(* the expression and the outcome of the query made since the last patch.  *)
(* base is a second cache of the same schema, the one that cache is reset  *)
(* to where caches are forked.                                             *)
(***************************************************************************)
\* the number of calls of patch and of query in a behaviour
MaxPatches == 2

EmptyCache ==
  [records |-> EmptyMap, inverseRelationships |-> EmptyMap,
   keyMap |-> EmptyMap]

Run(kind, operations, pre, origin, x) ==
  [kind |-> kind, operations |-> operations, pre |-> pre, origin |-> origin,
   inverse |-> x.inverse, data |-> x.data, error |-> x.error,
   calls |-> x.calls, log |-> x.log, events |-> x.events,
   returns |-> x.returns]

Queried(expression, result) ==
  [expression |-> expression, data |-> result.data, error |-> result.error]

NoQuery == Queried([op |-> "none"], Found(UndefinedRecord))

VARIABLES cache, run, patches, raised, queried, base

vars == <<cache, run, patches, raised, queried, base>>

Init ==
  /\ cache = EmptyCache
  /\ run = Run("none", <<>>, EmptyCache, EmptyCache, Context(EmptyCache))
  /\ patches = 0
  /\ raised = FALSE
  /\ queried = NoQuery
  /\ base = EmptyCache

\* the cache and the record of the run once patch has returned or raised x
Returned(kind, operations, origin, x) ==
  /\ cache' = CacheOf(x)
  /\ run' = Run(kind, operations, cache, origin, x)
  /\ raised' = (raised \/ x.error # NoError)
  /\ queried' = NoQuery
  /\ base' = base

\* cache.patch(operations)
Patch(operations) ==
  /\ patches < MaxPatches
  /\ Returned("patch", operations, cache, patch(cache, operations))
  /\ patches' = patches + 1

\* cache.patch(result.inverse) with the result of the last patch
PatchInverse ==
  /\ patches < MaxPatches + 1
  /\ run.kind = "patch"
  /\ run.error = NoError
  /\ Returned("inverse", run.inverse, run.pre, patch(cache, run.inverse))
  /\ patches' = patches + 1

\* cache.query(expression)
Query(expression) ==
  /\ patches < MaxPatches
  /\ \E result \in _query(cache, expression) :
        queried' = Queried(expression, result)
  /\ patches' = patches + 1
  /\ UNCHANGED <<cache, run, raised, base>>

(***************************************************************************)
(* The queries on their own: the stores hold up to three planets, each     *)
(* with an order that is a number, null or missing, and each query is made *)
(* as the last call of a behaviour.                                        *)
(***************************************************************************)
Mars == Id("planet", "mars")

\* the planet with the given order; Undefined: the planet has no order
Planet(identity, order) ==
  Rec(identity.type, identity.id, EmptyMap,
      (IF order = Undefined THEN EmptyMap ELSE "order" :> order)
        @@ (CASE identity = Jupiter -> "name" :> "Jupiter"
              [] identity = Earth -> "name" :> "Earth"
              [] OTHER -> "name" :> Null),
      CASE identity = Jupiter ->
             ("moons" :> DataMany(<<Io>>))
               @@ ("solarSystem" :> DataOne(SolarSystem))
        [] identity = Earth -> "solarSystem" :> DataNull
        [] OTHER -> EmptyMap)

Orders == {Number(n) : n \in {0 - 1, 1, 3, 5}} \cup {Null, Undefined}

RECURSIVE setRecords(_, _)
\* cache.setRecord(record) for each record of the set
setRecords(c, records) ==
  IF records = {} THEN c
  ELSE LET record == CHOOSE r \in records : TRUE
       IN setRecords(setRecord(c, record), records \ {record})

\* the records that Jupiter's relationships name
JupiterRelated ==
  {Rec(Io.type, Io.id, EmptyMap, "name" :> "Io",
       "planet" :> DataOne(Jupiter)),
   Rec(SolarSystem.type, SolarSystem.id, EmptyMap, EmptyMap,
       "planets" :> DataMany(<<Jupiter>>))}

\* the stores: each planet is absent or stored with one of the orders, and
\* Jupiter comes with the records it names
QueryStores ==
  {setRecords(EmptyCache,
              {Planet(i, order[i]) : i \in {j \in DOMAIN order :
                                              order[j] # "absent"}}
                \cup (IF order[Jupiter] # "absent" THEN JupiterRelated ELSE {})) :
     order \in [{Jupiter, Earth, Mars} -> Orders \cup {"absent"}]}

QueryFilters ==
  { <<>>,
    <<Filter("attribute", "order", "gt", Number(1), <<>>)>>,
    <<Filter("attribute", "order", "equal", Number(5), <<>>)>>,
    <<Filter("attribute", "order", "gte", Number(1), <<>>),
      Filter("attribute", "order", "lt", Number(5), <<>>)>>,
    <<Filter("attribute", "order", "lte", Number(0), <<>>),
      Filter("attribute", "order", "like", Number(1), <<>>)>>,
    <<Filter("attribute", "order", "like", Number(1), <<>>)>>,
    <<Filter("relatedRecords", "moons", "some", Undefined, <<Io>>)>>,
    <<Filter("relatedRecord", "solarSystem", "equal", Undefined,
             <<SolarSystem>>)>>,
    <<Filter("key", "remoteId", "equal", Undefined, <<>>)>> }

QuerySorts ==
  { <<>>,
    <<SortSpecifier("attribute", "order", "ascending")>>,
    <<SortSpecifier("attribute", "order", "descending")>>,
    <<SortSpecifier("attribute", "name", "ascending")>>,
    <<SortSpecifier("attribute", "name", "descending")>>,
    <<SortSpecifier("attribute", "order", "descending"),
      SortSpecifier("attribute", "name", "ascending")>>,
    <<SortSpecifier("relationship", "moons", "ascending")>> }

QueryPages ==
  {<<>>, Page(<<1>>, <<1>>), Page(<<>>, <<2>>), Page(<<0>>, <<>>)}

QueryExpressions ==
  {FindRecords("planet", filter, sort, page) :
     filter \in QueryFilters, sort \in QuerySorts, page \in QueryPages}
    \cup {FindRecords("moon", <<>>, <<>>, <<>>)}
    \cup {FindRelatedRecord(i, "solarSystem") : i \in {Jupiter, Earth, Mars}}
    \cup {FindRelatedRecords(i, "moons") : i \in {Jupiter, Earth}}

QueryInit ==
  /\ cache \in QueryStores
  /\ run = Run("none", <<>>, EmptyCache, EmptyCache, Context(EmptyCache))
  /\ patches = MaxPatches - 1
  /\ raised = FALSE
  /\ queried = NoQuery
  /\ base = EmptyCache

QueryNext == \E expression \in QueryExpressions : Query(expression)

QuerySpec == QueryInit /\ [][QueryNext]_vars

(***************************************************************************)
(* The patches and queries of a relationship that declares no inverse: the *)
(* star of a moon                                                          *)
(***************************************************************************)
OneWayInputs ==
  { <<AddRecord(Record(Io, EmptyMap, EmptyMap,
                       "star" :> DataOne(SolarSystem)))>>,
    <<AddRecord(Record(Io, EmptyMap, EmptyMap,
                       ("planet" :> DataOne(Jupiter))
                         @@ ("star" :> DataOne(SolarSystem))))>>,
    <<AddRecord(Record(Europa, EmptyMap, "name" :> "Europa", EmptyMap))>>,
    <<AddRecord(Record(SolarSystem, EmptyMap, "name" :> "Sol", EmptyMap))>>,
    <<ReplaceRecord(Record(Io, EmptyMap, "name" :> "Io", EmptyMap))>>,
    <<ReplaceRecord(Record(Europa, EmptyMap, EmptyMap,
                           "star" :> DataOne(SolarSystem)))>>,
    <<ReplaceRelatedRecord(Europa, "star", SolarSystem)>>,
    <<ReplaceRelatedRecord(Io, "star", NullId)>>,
    <<RemoveRecord(SolarSystem)>>,
    <<RemoveRecord(Io)>> }

OneWayExpressions ==
  {FindRelatedRecord(i, r) : i \in {Io, Europa}, r \in {"star", "planet"}}

OneWayNext ==
  \/ \E operations \in OneWayInputs : Patch(operations)
  \/ PatchInverse
  \/ \E expression \in OneWayExpressions : Query(expression)

OneWaySpec == Init /\ [][OneWayNext]_vars

(***************************************************************************)
(* Forks: cache is reset to base, and both are patched                     *)
(***************************************************************************)
ForkBases ==
  {CacheOf(patch(EmptyCache, operations)) :
     operations \in
       { <<AddRecord(Record(SolarSystem, EmptyMap, EmptyMap, EmptyMap)),
           AddRecord(Record(Earth, "remoteId" :> "e", "name" :> "Earth",
                            "solarSystem" :> DataOne(SolarSystem))),
           AddRecord(Record(Jupiter, EmptyMap, "name" :> "Jupiter",
                            "solarSystem" :> DataOne(SolarSystem))),
           AddRecord(Record(Io, EmptyMap, EmptyMap,
                            "planet" :> DataOne(Jupiter)))>>,
         <<AddRecord(Record(Earth, "remoteId" :> "e", "name" :> "Earth",
                            EmptyMap)),
           AddRecord(Record(Jupiter, EmptyMap, EmptyMap,
                            "moons" :> DataMany(<<Io, Europa>>)))>> }}

ForkInputs ==
  { <<RemoveRecord(Jupiter)>>,
    <<RemoveRecord(SolarSystem)>>,
    <<ReplaceRelatedRecord(Io, "planet", NullId)>>,
    <<AddRecord(Record(Europa, EmptyMap, EmptyMap,
                       "planet" :> DataOne(Jupiter)))>>,
    <<ReplaceAttribute(Jupiter, "name", "Planet")>>,
    <<RemoveFromRelatedRecords(Jupiter, "moons", Io)>> }

ForkInit ==
  /\ cache = EmptyCache
  /\ run = Run("none", <<>>, EmptyCache, EmptyCache, Context(EmptyCache))
  /\ patches = 0
  /\ raised = FALSE
  /\ queried = NoQuery
  /\ base \in ForkBases

\* cache.reset(base)
Reset ==
  /\ cache' = reset(cache, base)
  /\ run' = Run("reset", <<>>, cache, base, Context(reset(cache, base)))
  /\ queried' = NoQuery
  /\ UNCHANGED <<patches, raised, base>>

\* base.patch(operations)
PatchBase(operations) ==
  /\ patches < MaxPatches
  /\ base' = CacheOf(patch(base, operations))
  /\ run' = Run("base", operations, base, cache, patch(base, operations))
  /\ raised' = (raised \/ patch(base, operations).error # NoError)
  /\ queried' = NoQuery
  /\ patches' = patches + 1
  /\ cache' = cache

ForkNext ==
  \/ Reset
  \/ \E operations \in ForkInputs : Patch(operations)
  \/ \E operations \in ForkInputs : PatchBase(operations)
  \/ PatchInverse

ForkSpec == ForkInit /\ [][ForkNext]_vars

Next ==
  \/ \E operations \in Inputs : Patch(operations)
  \/ PatchInverse
  \/ \E expression \in InputExpressions : Query(expression)

Spec == Init /\ [][Next]_vars

TypeOK == run.error \in {NoError, "SchemaValidationError", "TypeError"}

(***************************************************************************)
(* Reads                                                                   *)
(***************************************************************************)
\* what getRecord, getRecords and getInverselyRelatedRecords return on c
Reads(c) ==
  [getRecord |-> [i \in Identities |-> getRecord(c, i)],
   getRecords |-> [t \in Models |-> getRecords(c, t)],
   getInverselyRelatedRecords |->
     [i \in Identities |-> getInverselyRelatedRecords(c, i)]]

\* C1 (inverse soundness): when patch(P) on S returned inv and left S',
\* patch(inv) on S' completes and leaves a state whose reads getRecord,
\* getRecords and getInverselyRelatedRecords are those of S.
InverseSoundness ==
  run.kind = "inverse" =>
    /\ run.error = NoError
    /\ Reads(cache) = Reads(run.origin)

(***************************************************************************)
(* Relationships and the inverse-relationship index                        *)
(***************************************************************************)
\* the stored record a names b in its relationship r
Names(c, a, r, b) ==
  /\ getRecord(c, a) # UndefinedRecord
  /\ b \in Range(Targets(deepGetData(getRecord(c, a), r)))

\* getInverselyRelatedRecords(b) contains the back-ref (a, r)
HasBackRef(c, b, a, r) ==
  \E k \in 1..Len(getInverselyRelatedRecords(c, b)) :
     LET rel == getInverselyRelatedRecords(c, b)[k]
     IN rel.record.type = a.type /\ rel.record.id = a.id
          /\ rel.relationship = r

DeclaresInverse(type, r) ==
  r \in ModelRelationships(type) /\ RelationshipDef(type, r).inverse # Undefined

\* C2 (inverse symmetry, I4): after any sequence of completed patches, for
\* every relationship r that declares an inverse and all identities a, b,
\* the stored record a names b in a.r exactly if the back-refs of b contain
\* (a, r).
InverseSymmetry ==
  ~raised =>
    \A a \in Identities, b \in Identities :
      \A r \in ModelRelationships(a.type) :
        DeclaresInverse(a.type, r) =>
          (Names(cache, a, r, b) <=> HasBackRef(cache, b, a, r))

\* no stored record names x in a relationship that declares an inverse
Unreferenced(c, x) ==
  \A a \in Identities :
    \A r \in ModelRelationships(a.type) :
      DeclaresInverse(a.type, r) => ~Names(c, a, r, x)

\* the identities that the removeRecord operations of a batch remove
Removed(operations) ==
  {cloneRecordIdentity(operations[k].record) :
     k \in {j \in 1..Len(operations) : operations[j].op = "removeRecord"}}

\* C3 (referential integrity, I5): right after a patch that contains
\* removeRecord(x) completes, no stored record names x in a relationship
\* that declares an inverse.
ReferentialIntegrity ==
  (~raised /\ run.kind # "none") =>
    \A x \in Removed(run.operations) : Unreferenced(cache, x)

\* the last operation of a batch
Last(operations) == operations[Len(operations)]

\* C3 as amended: right after a patch whose last operation is removeRecord(x)
\* completes, no stored record names x in a relationship that declares an
\* inverse.
ReferentialIntegrityLast ==
  (run.kind # "none" /\ run.error = NoError /\ Len(run.operations) > 0
     /\ Last(run.operations).op = "removeRecord") =>
    Unreferenced(cache, cloneRecordIdentity(Last(run.operations).record))

\* a patch ending in removeRecord(x) completed on a store where a record
\* named x
ReferentialIntegrityWitness ==
  /\ run.kind # "none" /\ run.error = NoError /\ Len(run.operations) > 0
  /\ Last(run.operations).op = "removeRecord"
  /\ ~Unreferenced(run.pre, cloneRecordIdentity(Last(run.operations).record))
  /\ getRecord(run.pre, Last(run.operations).record) # UndefinedRecord

(***************************************************************************)
(* The record of a run                                                     *)
(***************************************************************************)
Logged(e) == \E i \in 1..Len(run.log) : run.log[i] = e

Pos(e) == CHOOSE i \in 1..Len(run.log) : run.log[i] = e

Calls == 1..Len(run.calls)

\* the call took effect: its inverse patch operator returned an operation
Effective(n) == run.calls[n].inverse # NoOperation

\* the steps the log holds for call n
StepsOf(n) == {run.log[i][1] : i \in {j \in 1..Len(run.log) : run.log[j][2] = n}}

\* C4 (no-op idempotence): when the inverse patch operator of an operation
\* returns nothing for the current state, the patch of that operation leaves
\* the records and the inverse-relationship index unchanged, runs neither
\* the patch operator nor a before, after, immediate or finally hook, emits
\* nothing and adds nothing to result.inverse.
NoOpIdempotence ==
  /\ (run.kind # "none" /\ Len(run.operations) = 1
        /\ SchemaValidation_validate(run.operations[1]) = NoError
        /\ InversePatchOperators(run.pre, run.operations[1])
             = Inverse(NoOperation)) =>
       /\ run.error = NoError
       /\ cache = run.pre
       /\ run.inverse = <<>>
       /\ run.events = <<>>
       /\ StepsOf(1) = {"validate", "noop"}
       /\ Len(run.calls) = 1
  /\ \A n \in Calls :
       (Logged(<<"noop", n, 0>>)) =>
          /\ StepsOf(n) = {"validate", "noop"}
          /\ \A m \in Calls : run.calls[m].parent # n
          /\ \A k \in 1..Len(run.events) : run.events[k].n # n

\* an operation without an inverse was patched on a store that holds its
\* record (e.g. addRecord of the stored record, with relationships)
NoOpIdempotenceWitness ==
  /\ run.kind = "patch" /\ Len(run.operations) = 1
  /\ run.operations[1].op = "addRecord"
  /\ run.operations[1].record.relationships # EmptyMap
  /\ SchemaValidation_validate(run.operations[1]) = NoError
  /\ InversePatchOperators(run.pre, run.operations[1]) = Inverse(NoOperation)

(***************************************************************************)
(* Validation                                                              *)
(***************************************************************************)
\* the operation references a model, or (addRecord, replaceRecord) a key,
\* attribute or relationship, that the schema does not declare
Undeclared(op) ==
  \/ op.record.type \notin Models
  \/ \E i \in referencedIdentities(op) : i.type \notin Models
  \/ /\ op.op \in {"addRecord", "replaceRecord"}
     /\ \E f \in DOMAIN op.record.keys : f \notin ModelKeys(op.record.type)
  \/ /\ op.op \in {"addRecord", "replaceRecord"}
     /\ \E f \in DOMAIN op.record.attributes :
          f \notin ModelAttributes(op.record.type)
  \/ /\ op.op \in {"addRecord", "replaceRecord"}
     /\ \E f \in DOMAIN op.record.relationships :
          f \notin ModelRelationships(op.record.type)

\* the operations of the batch before the k-th
Prefix(operations, k) == SubSeq(operations, 1, k - 1)

\* the k-th operation of the run is the first that the schema does not
\* admit, and the operations before it complete
FirstUndeclared(k) ==
  /\ k \in 1..Len(run.operations)
  /\ Undeclared(run.operations[k])
  /\ \A j \in 1..(k - 1) : ~Undeclared(run.operations[j])
  /\ patch(run.pre, Prefix(run.operations, k)).error = NoError

\* C5 (schema closure): an operation that references an undeclared model,
\* or (addRecord, replaceRecord) an undeclared key, attribute or
\* relationship, fails with SchemaValidationError and changes nothing: the
\* records and the index are those right before the operation was validated.
SchemaClosure ==
  \A k \in 1..Len(run.operations) :
    (run.kind # "none" /\ FirstUndeclared(k)) =>
      /\ run.error = "SchemaValidationError"
      /\ cache = CacheOf(patch(run.pre, Prefix(run.operations, k)))
      /\ run.calls[Len(run.calls)].operation = run.operations[k]
      /\ StepsOf(Len(run.calls)) = {"validate"}

\* an undeclared operation was patched on a store that holds records
SchemaClosureWitness ==
  /\ run.kind = "patch"
  /\ run.pre.records # EmptyMap
  /\ \E k \in 1..Len(run.operations) : FirstUndeclared(k)
  /\ run.error = "SchemaValidationError"

\* the primary calls of the run, in order
PrimaryCalls ==
  SelectSeq([n \in Calls |-> n], LAMBDA n : run.calls[n].primary)

\* C6 (no rollback on error): when the k-th operation of a batch raises
\* during validation, patch raises at once: the operations from the k-th on
\* have no effect (none after the k-th is started) and what the operations
\* before the k-th and their sub-operations changed stays.
NoRollback ==
  (run.kind # "none" /\ run.error = "SchemaValidationError") =>
    LET k == Len(PrimaryCalls)
    IN /\ k >= 1
       /\ run.calls[Len(run.calls)].primary
       /\ run.calls[Len(run.calls)].operation = run.operations[k]
       /\ Len(run.data) = k - 1
       /\ patch(run.pre, Prefix(run.operations, k)).error = NoError
       /\ cache = CacheOf(patch(run.pre, Prefix(run.operations, k)))

\* a batch raised at an operation that is neither its first nor its last,
\* after the operations before it had changed the store
NoRollbackWitness ==
  /\ run.kind = "patch" /\ run.error = "SchemaValidationError"
  /\ Len(PrimaryCalls) > 1
  /\ Len(PrimaryCalls) < Len(run.operations)
  /\ cache # run.pre

(***************************************************************************)
(* Well-formed relationships                                               *)
(***************************************************************************)
\* the data of relationship r of a record of the type is what the kind of
\* the relationship admits
WellFormedData(type, r, data) ==
  IF RelationshipDef(type, r).type = "hasOne"
  THEN data.tag \in {"null", "one"}
  ELSE data.tag = "many"

WellFormed(c) ==
  \A i \in DOMAIN c.records :
    \A r \in DOMAIN c.records[i].relationships :
      WellFormedData(i.type, r, c.records[i].relationships[r])

\* C7 (relationship well-formedness, I3): after any completed patch, also
\* one that applies an inverse list that patch returned, every stored hasOne
\* relationship holds null or one identity and every stored hasMany
\* relationship holds a sequence of identities, never null.
RelationshipWellFormedness ==
  ~raised => WellFormed(cache)

\* an inverse list with a replaceRecord or a replaceRelatedRecord(null) was
\* applied and left records with relationships
RelationshipWellFormednessWitness ==
  /\ ~raised
  /\ run.kind = "inverse"
  /\ \E k \in 1..Len(run.operations) : run.operations[k].op = "replaceRecord"
  /\ \E i \in DOMAIN cache.records :
        \E r \in DOMAIN cache.records[i].relationships :
           cache.records[i].relationships[r].tag = "many"
  /\ \E i \in DOMAIN cache.records :
        \E r \in DOMAIN cache.records[i].relationships :
           cache.records[i].relationships[r].tag = "null"

(***************************************************************************)
(* PatchResult                                                             *)
(***************************************************************************)
\* the data of the patch event of call n
EventData(n) ==
  run.events[CHOOSE k \in 1..Len(run.events) : run.events[k].n = n].data

\* C8 (shape of result.data): a patch that completes returns one entry of
\* data for each operation it was given, in their order: null for an
\* operation that was a no-op, else what its patch operator returned; what
\* the operators of injected sub-operations return is not added.
ResultDataShape ==
  (run.kind # "none" /\ run.error = NoError) =>
    /\ Len(run.data) = Len(run.operations)
    /\ Len(PrimaryCalls) = Len(run.operations)
    /\ \A k \in 1..Len(run.operations) :
         /\ run.calls[PrimaryCalls[k]].operation = run.operations[k]
         /\ IF Effective(PrimaryCalls[k])
            THEN run.data[k] = EventData(PrimaryCalls[k])
            ELSE run.data[k] = NullRecord
    /\ (Len(run.operations) = 1 /\ Effective(1)
          /\ \A n \in Calls : run.calls[n].via # "before") =>
         run.data[1] = PatchOperators(run.pre, run.operations[1]).data

\* a batch completed in which one operation was a no-op and another one
\* injected sub-operations
ResultDataShapeWitness ==
  /\ run.kind = "patch" /\ run.error = NoError
  /\ Len(run.operations) > 1
  /\ \E n \in Calls : run.calls[n].primary /\ ~Effective(n)
  /\ \E n \in Calls : ~run.calls[n].primary /\ Effective(n)

\* the calls that took effect, in the order of their inverses
EffectiveCalls == SelectSeq([n \in Calls |-> n], LAMBDA n : Effective(n))

\* C9 (order of result.inverse), as stated: inverse[0] is the inverse of the
\* last primary operation that took effect.
InverseHeadIsLastPrimary ==
  (run.kind # "none" /\ run.error = NoError
     /\ \E n \in Calls : run.calls[n].primary /\ Effective(n)) =>
    LET n == CHOOSE m \in Calls :
               /\ run.calls[m].primary /\ Effective(m)
               /\ \A l \in Calls :
                    (run.calls[l].primary /\ Effective(l)) => l <= m
    IN run.inverse[1] = run.calls[n].inverse

\* C9 as amended: result.inverse holds the inverses of all operations that
\* took effect, primary and injected, in the reverse of the order in which
\* they were computed; inverse[0] is the inverse of the last operation that
\* took effect, which is the last effective primary operation when that
\* operation injected no sub-operation that took effect.
InverseOrder ==
  (run.kind # "none" /\ run.error = NoError) =>
    /\ Len(run.inverse) = Len(EffectiveCalls)
    /\ \A k \in 1..Len(run.inverse) :
         run.inverse[k] =
           run.calls[EffectiveCalls[Len(EffectiveCalls) + 1 - k]].inverse
    /\ \A k \in 1..(Len(EffectiveCalls) - 1) :
         Pos(<<"inverse", EffectiveCalls[k], 0>>)
           < Pos(<<"inverse", EffectiveCalls[k + 1], 0>>)
    /\ \A n \in Calls :
         (/\ run.calls[n].primary /\ Effective(n)
          /\ \A m \in Calls : m > n => ~Effective(m)) =>
            run.inverse[1] = run.calls[n].inverse

\* a batch completed whose last effective primary operation injected
\* sub-operations that took effect
InverseOrderWitness ==
  /\ run.kind = "patch" /\ run.error = NoError
  /\ Len(run.operations) > 1
  /\ Len(EffectiveCalls) > 2
  /\ ~run.calls[EffectiveCalls[Len(EffectiveCalls)]].primary
  /\ run.calls[EffectiveCalls[1]].primary

(***************************************************************************)
(* The order of the steps of one operation                                 *)
(***************************************************************************)
RECURSIVE TopVia(_, _)
\* the step of call n in which call k was made: by n itself or by a
\* sub-operation below it ("none" when k is not below n)
TopVia(n, k) ==
  IF run.calls[k].parent = n THEN run.calls[k].via
  ELSE IF run.calls[k].parent = 0 THEN "none"
  ELSE TopVia(n, run.calls[k].parent)

\* the steps of an operation that takes effect, in the order of the claim
Steps ==
  << <<"validate", 1>>, <<"validate", 2>>, <<"validate", 3>>,
     <<"inverse", 0>>,
     <<"before", 1>>, <<"before", 2>>, <<"before", 3>>,
     <<"after", 1>>, <<"after", 2>>, <<"after", 3>>,
     <<"operator", 0>>,
     <<"immediate", 1>>, <<"immediate", 2>>, <<"immediate", 3>>,
     <<"emit", 0>>,
     <<"finally", 1>>, <<"finally", 2>>, <<"finally", 3>> >>

StepPos(n, s) == Pos(<<Steps[s][1], n, Steps[s][2]>>)

\* C10 (pipeline phase order): for an operation that takes effect the steps
\* happen in this order: the validate hooks; the inverse, computed and
\* appended; the before sub-operations; the after hooks; the patch operator;
\* the immediate hooks; the patch event; the staged after sub-operations;
\* the finally hooks and their sub-operations.
PhaseOrder ==
  (run.kind # "none" /\ run.error = NoError) =>
    \A n \in Calls : Effective(n) =>
      /\ \A s \in 1..Len(Steps) : Logged(<<Steps[s][1], n, Steps[s][2]>>)
      /\ \A s \in 1..(Len(Steps) - 1) : StepPos(n, s) < StepPos(n, s + 1)
      /\ \A i \in 1..Len(run.log) :
           LET k == run.log[i][2]
               via == IF k > n THEN TopVia(n, k) ELSE "none"
           IN /\ via = "before" =>
                   Pos(<<"before", n, 3>>) < i /\ i < Pos(<<"after", n, 1>>)
              /\ via = "after" =>
                   Pos(<<"emit", n, 0>>) < i /\ i < Pos(<<"finally", n, 1>>)
              /\ via = "finally" => Pos(<<"finally", n, 3>>) < i
              /\ via # "none" => via \in {"before", "after", "finally"}

\* an operation took effect that applied both before and after
\* sub-operations which took effect
PhaseOrderWitness ==
  /\ run.kind = "patch" /\ run.error = NoError
  /\ \E n \in Calls :
       /\ Effective(n)
       /\ \E k \in Calls :
            run.calls[k].parent = n /\ run.calls[k].via = "before"
              /\ Effective(k)
       /\ \E k \in Calls :
            run.calls[k].parent = n /\ run.calls[k].via = "after"
              /\ Effective(k)

(***************************************************************************)
(* Patch events                                                            *)
(***************************************************************************)
\* the events of call n and what the patch operator returned to call n
EventsOf(n) == SelectSeq(run.events, LAMBDA e : e.n = n)

ReturnsOf(n) == SelectSeq(run.returns, LAMBDA r : r.n = n)

\* C11 (patch events): for every operation whose patch operator runs,
\* primary or injected, exactly one patch event is emitted, with that
\* operation and the data the operator returned, after the operator and
\* before every step of the staged after and finally sub-operations of the
\* operation; an operation that is a no-op or that fails validation emits
\* no event.
PatchEvents ==
  run.kind # "none" =>
    /\ \A n \in Calls :
         /\ Len(ReturnsOf(n)) = (IF Logged(<<"operator", n, 0>>) THEN 1 ELSE 0)
         /\ Len(EventsOf(n)) = Len(ReturnsOf(n))
         /\ Len(EventsOf(n)) = 1 =>
              /\ EventsOf(n)[1].operation = run.calls[n].operation
              /\ EventsOf(n)[1].data = ReturnsOf(n)[1].data
              /\ Logged(<<"emit", n, 0>>)
              /\ Pos(<<"operator", n, 0>>) < Pos(<<"emit", n, 0>>)
              /\ \A i \in 1..Len(run.log) :
                   (run.log[i][2] > n
                      /\ TopVia(n, run.log[i][2]) \in {"after", "finally"})
                     => Pos(<<"emit", n, 0>>) < i
              /\ \A i \in 1..Len(run.log) :
                   (run.log[i][2] = n /\ run.log[i][1] = "finally")
                     => Pos(<<"emit", n, 0>>) < i
         /\ ~Effective(n) => Len(EventsOf(n)) = 0
    /\ Len(run.events) = Len(run.returns)
    /\ \A k \in 1..Len(run.events) : run.events[k].n \in Calls
    /\ \A k \in 1..(Len(run.events) - 1) :
         Pos(<<"emit", run.events[k].n, 0>>)
           < Pos(<<"emit", run.events[k + 1].n, 0>>)

\* a batch in which an operation took effect and staged after
\* sub-operations that took effect, one operation was a no-op and one
\* failed validation
PatchEventsWitness ==
  /\ run.kind = "patch" /\ run.error = "SchemaValidationError"
  /\ Len(run.events) > 1
  /\ \E n \in Calls : ~Effective(n) /\ Logged(<<"noop", n, 0>>)
  /\ \E n \in Calls :
       /\ Effective(n)
       /\ \E k \in Calls :
            run.calls[k].parent = n /\ run.calls[k].via = "after"
              /\ Effective(k)

(***************************************************************************)
(* What single operations store                                            *)
(***************************************************************************)
\* the one operation of the run, when the run patched one operation that
\* the schema admits
SingleOperation(op) ==
  /\ run.kind # "none"
  /\ Len(run.operations) = 1
  /\ run.operations[1].op = op
  /\ ~Undeclared(run.operations[1])

\* the grouping stored holds the fields of current that updates does not
\* mention with their old values and the fields of updates with its values
MergedGrouping(current, updates, stored) ==
  /\ DOMAIN stored = (DOMAIN current) \cup (DOMAIN updates)
  /\ \A f \in DOMAIN updates : stored[f] = updates[f]
  /\ \A f \in (DOMAIN current) \ (DOMAIN updates) : stored[f] = current[f]

\* C12 (replaceRecord merge): after patch(replaceRecord(r)) on a store that
\* holds a record c with the identity of r, the stored record has, for each
\* of attributes, keys and relationships, the fields of c that r does not
\* mention with their old values and the fields that r mentions with the
\* values of r; when no such record is stored, the stored record is r.
ReplaceRecordMerge ==
  SingleOperation("replaceRecord") =>
    LET r == run.operations[1].record
        c == getRecord(run.pre, r)
        stored == getRecord(cache, r)
    IN /\ run.error = NoError
       /\ IF c = UndefinedRecord THEN stored = r
          ELSE /\ stored.type = r.type /\ stored.id = r.id
               /\ MergedGrouping(c.attributes, r.attributes, stored.attributes)
               /\ MergedGrouping(c.keys, r.keys, stored.keys)
               /\ MergedGrouping(c.relationships, r.relationships,
                                 stored.relationships)

\* the run patched the one operation op against a cache that did not hold
\* the record the operation names
AbsentBase(op) ==
  /\ run.kind # "none"
  /\ Len(run.operations) = 1
  /\ run.operations[1].op = op
  /\ getRecord(run.pre, run.operations[1].record) = UndefinedRecord

\* the patch raised nothing, left the record of the operation absent, and
\* returned data [null] and an empty inverse
NothingDone ==
  /\ run.error = NoError
  /\ getRecord(cache, run.operations[1].record) = UndefinedRecord
  /\ findRecord(cache, FindRecord(run.operations[1].record)).error =
       "RecordNotFoundException"
  /\ run.data = <<NullRecord>>
  /\ run.inverse = <<>>

\* C13 as stated (removeFromRelatedRecords against an absent base record,
\* any identity): for any identity id with no stored record,
\* patch(removeFromRelatedRecords(id, rel, related)) raises no error,
\* creates no record for id and returns data [null] and an empty inverse.
RemoveFromAbsentAny ==
  AbsentBase("removeFromRelatedRecords") => NothingDone

\* C13 (removeFromRelatedRecords against an absent base record): for any
\* identity id of a declared model with no stored record, a declared
\* relationship rel and a related identity of a declared model,
\* patch(removeFromRelatedRecords(id, rel, related)) raises no error, creates
\* no record for id (getRecord(id) stays absent and findRecord(id) raises
\* RecordNotFoundException) and returns data [null] and an empty inverse.
RemoveFromAbsent ==
  (AbsentBase("removeFromRelatedRecords") /\ ~Undeclared(run.operations[1]))
    => NothingDone

\* the base record was absent while the related record was stored
RemoveFromAbsentWitness ==
  /\ AbsentBase("removeFromRelatedRecords")
  /\ ~Undeclared(run.operations[1])
  /\ getRecord(run.pre, run.operations[1].relatedRecord) # UndefinedRecord
  /\ NothingDone

\* C14 (replaceAttribute against an absent base record): for any declared
\* identity id with no stored record and any defined value v,
\* patch(replaceAttribute(id, name, v)) completes without raising and
\* afterwards getRecord(id) is the bare record {type, id, attributes:
\* {name: v}}.
ReplaceAttributeSynthesizes ==
  (/\ AbsentBase("replaceAttribute")
   /\ ~Undeclared(run.operations[1])
   /\ run.operations[1].value # Undefined)
    => /\ run.error = NoError
       /\ getRecord(cache, run.operations[1].record) =
            [BareRecord(run.operations[1].record) EXCEPT
               !.attributes = run.operations[1].field :> run.operations[1].value]

\* C15 (replaceRelatedRecord with null against an absent base record): for
\* any declared identity id with no stored record, after
\* patch(replaceRelatedRecord(id, rel, null)) a record for id is stored and
\* its relationships[rel].data is null.
ReplaceRelatedRecordNullSynthesizes ==
  (/\ AbsentBase("replaceRelatedRecord")
   /\ ~Undeclared(run.operations[1])
   /\ run.operations[1].relatedRecord = NullId)
    => /\ getRecord(cache, run.operations[1].record) # UndefinedRecord
       /\ deepGetData(getRecord(cache, run.operations[1].record),
                      run.operations[1].relationship) = DataOf(NullId)

\* the bare record of the operation's identity plus the one field that the
\* operation o writes
Skeleton(o) ==
  CASE o.op = "replaceKey" ->
         [BareRecord(o.record) EXCEPT !.keys = o.field :> o.value]
    [] o.op = "addToRelatedRecords" ->
         [BareRecord(o.record) EXCEPT
            !.relationships = o.relationship :> DataMany(<<o.relatedRecord>>)]
    [] o.op = "replaceRelatedRecords" ->
         [BareRecord(o.record) EXCEPT
            !.relationships = o.relationship :> DataMany(o.relatedRecords)]
    [] o.op = "replaceRelatedRecord" ->
         [BareRecord(o.record) EXCEPT
            !.relationships = o.relationship :> DataOne(o.relatedRecord)]

\* the run patched one admitted operation that writes a key, appends a
\* related record, sets a non-empty list or sets a non-null related record,
\* against a cache that did not hold the record of the operation
WritesToAbsent ==
  /\ \/ AbsentBase("replaceKey")
     \/ AbsentBase("addToRelatedRecords")
     \/ AbsentBase("replaceRelatedRecords")
          /\ run.operations[1].relatedRecords # <<>>
     \/ AbsentBase("replaceRelatedRecord")
          /\ run.operations[1].relatedRecord # NullId
  /\ ~Undeclared(run.operations[1])

\* C16 (skeleton synthesis): for any declared identity id with no stored
\* record, patch of replaceKey(id, k, v), addToRelatedRecords(id, rel, m),
\* replaceRelatedRecords(id, rel, L) with non-empty L, or
\* replaceRelatedRecord(id, rel, b) with non-null b completes and stores for
\* id the record that consists of the identity plus exactly the written field.
SkeletonSynthesis ==
  WritesToAbsent =>
    /\ run.error = NoError
    /\ getRecord(cache, run.operations[1].record) = Skeleton(run.operations[1])

\* a skeleton was synthesized by a relationship write while other records
\* were stored
SkeletonSynthesisWitness ==
  /\ WritesToAbsent
  /\ run.operations[1].op = "addToRelatedRecords"
  /\ run.pre.records # EmptyMap
  /\ getRecord(cache, run.operations[1].record) = Skeleton(run.operations[1])

(***************************************************************************)
(* Inverse relationships of a batch of insertions                          *)
(***************************************************************************)
\* the run patched a batch of admitted addRecord operations against an
\* empty store
AddedToEmpty ==
  /\ run.kind = "patch"
  /\ run.pre.records = EmptyMap
  /\ run.operations # <<>>
  /\ \A i \in 1..Len(run.operations) :
        run.operations[i].op = "addRecord" /\ ~Undeclared(run.operations[i])

\* the identities that the record a names through relationship r
Related(a, r) ==
  IF r \in DOMAIN a.relationships THEN Range(Targets(a.relationships[r]))
  ELSE {}

\* the stored record b carries the identity a in b.r: as its data when r is
\* hasOne, exactly once in its data when r is hasMany
Carries(b, r, a) ==
  LET data == deepGetData(getRecord(cache, b), r)
  IN /\ getRecord(cache, b) # UndefinedRecord
     /\ IF RelationshipDef(b.type, r).type = "hasOne"
        THEN data = DataOne(a)
        ELSE /\ isArray(data)
             /\ Cardinality({k \in 1..Len(data.many) : data.many[k] = a}) = 1

\* the relationships of the i-th added record that declare an inverse
InverseRelationships(i) ==
  {r \in ModelRelationships(run.operations[i].record.type) :
     DeclaresInverse(run.operations[i].record.type, r)}

\* no operation after the i-th undoes the pair (a names b through r, with
\* inverse r2): none adds b with a record that does not name a through r2,
\* none adds a with a record that does not name b through r, and when r or
\* r2 is hasOne none names a or b through it from another record
Settled(i, a, r, b, r2) ==
  \A j \in (i + 1)..Len(run.operations) :
     LET later == run.operations[j].record
         l == cloneRecordIdentity(later)
     IN /\ l = b => a \in Related(later, r2)
        /\ l = a => b \in Related(later, r)
        /\ (RelationshipDef(b.type, r2).type = "hasOne" /\ l # a
              /\ l.type = a.type) => b \notin Related(later, r)
        /\ (RelationshipDef(a.type, r).type = "hasOne" /\ l # b
              /\ l.type = b.type) => a \notin Related(later, r2)

\* C17 as stated (inverse relationships are created on insertion, in any
\* order): after a batch of addRecord operations applied to an empty store,
\* for every added record a and every relationship R of a that declares
\* inverse R' and names b, the stored record b carries a in b.R', regardless
\* of the order of the operations.
InverseOnInsertionAnyOrder ==
  AddedToEmpty =>
    /\ run.error = NoError
    /\ \A i \in 1..Len(run.operations) :
         \A r \in InverseRelationships(i) :
           \A b \in Related(run.operations[i].record, r) :
              Carries(b, RelationshipDef(run.operations[i].record.type,
                                         r).inverse,
                      cloneRecordIdentity(run.operations[i].record))

\* C17 (inverse relationships are created on insertion): after a batch of
\* addRecord operations applied to an empty store, for every added record a
\* and every relationship R of a that declares inverse R' and names b, the
\* stored record b carries a in b.R' (as its data when R' is hasOne, exactly
\* once when R' is hasMany), provided that no later operation of the batch
\* adds b without a in R', adds a without b in R, or names a or b from
\* another record through a hasOne side of the pair.
InverseOnInsertion ==
  AddedToEmpty =>
    /\ run.error = NoError
    /\ \A i \in 1..Len(run.operations) :
         \A r \in InverseRelationships(i) :
           \A b \in Related(run.operations[i].record, r) :
              Settled(i, cloneRecordIdentity(run.operations[i].record), r, b,
                      RelationshipDef(run.operations[i].record.type,
                                      r).inverse)
                => Carries(b, RelationshipDef(run.operations[i].record.type,
                                              r).inverse,
                           cloneRecordIdentity(run.operations[i].record))

\* the batch ss, earth(solarSystem -> ss), jupiter(solarSystem -> ss),
\* io(planet -> jupiter) has been applied: ss.planets is set-equal to
\* {earth, jupiter} and jupiter.moons is [io]
InverseOnInsertionWitness ==
  /\ AddedToEmpty
  /\ Len(run.operations) = 4
  /\ cloneRecordIdentity(run.operations[1].record) = SolarSystem
  /\ run.error = NoError
  /\ Range(Targets(deepGetData(getRecord(cache, SolarSystem), "planets"))) =
       {Earth, Jupiter}
  /\ deepGetData(getRecord(cache, Jupiter), "moons") = DataMany(<<Io>>)

\* the run patched the one operation removeRecord(x) against a cache that
\* held x, and completed
RemovedStored ==
  /\ SingleOperation("removeRecord")
  /\ getRecord(run.pre, run.operations[1].record) # UndefinedRecord
  /\ run.error = NoError

\* C18 (removeRecord leaves nothing behind): in every reachable state in
\* which x is stored, after patch(removeRecord(x)) completes, all injected
\* operations included, getRecord(x) is absent and
\* getInverselyRelatedRecords(x) is empty.
RemoveRecordLeavesNothing ==
  RemovedStored =>
    /\ getRecord(cache, run.operations[1].record) = UndefinedRecord
    /\ getInverselyRelatedRecords(cache, run.operations[1].record) = <<>>

\* the removed record was named by a stored record, and named one itself
RemoveRecordLeavesNothingWitness ==
  /\ RemovedStored
  /\ getInverselyRelatedRecords(run.pre, run.operations[1].record) # <<>>
  /\ getRecord(run.pre, run.operations[1].record).relationships # EmptyMap
  /\ Len(run.calls) > 1

(***************************************************************************)
(* The key map                                                             *)
(***************************************************************************)
\* the operator of call n ran and the operation is one that may alter the
\* keys of a record
KeysWritten(n) ==
  /\ Effective(n)
  /\ "operator" \in StepsOf(n)
  /\ run.calls[n].operation.op \in {"addRecord", "replaceRecord", "replaceKey"}

\* the key map gives the id of the stored record for each of its keys
KeysMapped(record) ==
  \A k \in KeyNames(record) :
     keyToId(cache, record.type, k, record.keys[k]) = record.id

QueriedFor(identity) ==
  /\ queried # NoQuery
  /\ queried.expression.op = "findRecord"
  /\ cloneRecordIdentity(queried.expression.record) = identity

\* findRecord has returned the stored record, or has raised
\* RecordNotFoundException exactly when no record is stored
FindRecordResult ==
  \A identity \in Identities \cup {Ceres} :
     QueriedFor(identity) =>
       IF identity \in DOMAIN cache.records
       THEN queried.error = NoError /\ queried.data = cache.records[identity]
       ELSE queried.error = "RecordNotFoundException"

\* after addRecord(r) of a record without relationships on an absent
\* identity, findRecord returns r
FindRecordAdded ==
  (/\ AbsentBase("addRecord")
   /\ run.error = NoError
   /\ run.operations[1].record.relationships = EmptyMap
   /\ QueriedFor(cloneRecordIdentity(run.operations[1].record)))
    => queried.error = NoError /\ queried.data = run.operations[1].record

FoundRecords ==
  queried.expression.op = "findRecords" /\ queried.error = NoError

\* the stored records of the type that satisfy every filter predicate
Matching(expression) ==
  {record \in getRecords(cache, expression.type) :
     \A k \in 1..Len(expression.filter) :
        applyFilter(record, expression.filter[k]) = Found(TRUE)}

\* the record has a value for every sort specifier
Valued(record, sort) ==
  \A k \in 1..Len(sort) :
     ~isNoneValue(deepGetAttribute(record, sort[k].attribute))

RECURSIVE Precedes(_, _, _)
\* the first specifier on which the two records differ puts a before b
Precedes(a, b, sort) ==
  IF sort = <<>> THEN FALSE
  ELSE LET va == deepGetAttribute(a, Head(sort).attribute)
           vb == deepGetAttribute(b, Head(sort).attribute)
       IN IF va = vb THEN Precedes(a, b, Tail(sort))
          ELSE IF Head(sort).order = "descending" THEN lessThan(vb, va)
          ELSE lessThan(va, vb)

\* no record of the list stands before one that precedes it, among the
\* records that have a value for every sort specifier
Ordered(list, sort) ==
  \A i, j \in 1..Len(list) :
     (i < j /\ Valued(list[i], sort) /\ Valued(list[j], sort))
       => ~Precedes(list[j], list[i], sort)

\* the positions offset .. offset + limit - 1 of the list, offset 0 when the
\* page has none; the list itself without a page
Positions(list, page) ==
  IF page = <<>> THEN list
  ELSE LET offset == IF page[1].offset = <<>> THEN 0 ELSE page[1].offset[1]
           last == IF offset + page[1].limit[1] < Len(list)
                   THEN offset + page[1].limit[1] ELSE Len(list)
       IN [k \in 1..(IF last > offset THEN last - offset ELSE 0) |->
             list[offset + k]]

\* C21 (findRecords composes): whenever findRecords returns, its result is
\* the positions offset .. offset + limit - 1 (offset defaulting to 0) of a
\* list that holds each stored record of the type that satisfies every
\* filter predicate exactly once, ordered by the sort specifiers in priority
\* order (the place of records without a value is left open here).
FindRecordsComposes ==
  FoundRecords =>
    \E list \in Orderings(Matching(queried.expression)) :
       /\ Ordered(list, queried.expression.sort)
       /\ queried.data = Positions(list, queried.expression.page)

\* planets of order 5, 1 and 3, sorted ascending by order: the page of
\* offset 1 and limit 1 is the planet of order 3
FindRecordsComposesWitness ==
  /\ queried.expression
       = FindRecords("planet", <<>>,
                     <<SortSpecifier("attribute", "order", "ascending")>>,
                     Page(<<1>>, <<1>>))
  /\ {deepGetAttribute(record, "order") :
        record \in getRecords(cache, "planet")}
       = {Number(5), Number(1), Number(3)}
  /\ queried.error = NoError
  /\ Len(queried.data) = 1
  /\ deepGetAttribute(queried.data[1], "order") = Number(3)

\* the value of the record for the first sort specifier
SortValue(record) ==
  deepGetAttribute(record, queried.expression.sort[1].attribute)

\* C22 (sort placement of missing values): in the result of findRecords with
\* an attribute sort specifier, every record whose sort attribute is null or
\* undefined stands after every record with a defined value when the order
\* is ascending, and before every such record when it is descending.
MissingValuesLast ==
  (/\ FoundRecords
   /\ queried.expression.sort # <<>>
   /\ queried.expression.sort[1].kind = "attribute")
    => \A i, j \in 1..Len(queried.data) :
          (/\ isNoneValue(SortValue(queried.data[i]))
           /\ ~isNoneValue(SortValue(queried.data[j])))
            => IF queried.expression.sort[1].order = "descending"
               THEN i < j ELSE j < i

\* the operators that applyFilter knows for the kind of filter
KnownOperators(kind) ==
  CASE kind = "attribute" -> {"equal", "gt", "gte", "lt", "lte"}
    [] kind = "relatedRecords" -> {"equal", "all", "some", "none"}
    [] kind = "relatedRecord" -> {"equal"}
    [] OTHER -> {}

\* a filter predicate carries an unknown operator, a sort specifier has an
\* unsupported kind, or the page has no limit
Malformed(expression) ==
  \/ \E k \in 1..Len(expression.filter) :
        /\ expression.filter[k].kind
             \in {"attribute", "relatedRecords", "relatedRecord"}
        /\ expression.filter[k].op
             \notin KnownOperators(expression.filter[k].kind)
  \/ \E k \in 1..Len(expression.sort) :
        expression.sort[k].kind # "attribute"
  \/ expression.page # <<>> /\ expression.page[1].limit = <<>>

\* C23 (malformed queries are rejected): findRecords raises
\* QueryExpressionParseError whenever a filter predicate carries an unknown
\* operator, a sort specifier has an unsupported kind, or page is present
\* without limit, in every state of the store.
MalformedRejected ==
  (queried.expression.op = "findRecords" /\ Malformed(queried.expression))
    => queried.error = "QueryExpressionParseError"

(***************************************************************************)
(* findRelatedRecord                                                       *)
(***************************************************************************)
\* C24 (findRelatedRecord): findRelatedRecord(identity, relationship) on a
\* hasOne relationship returns null when the owner is absent or the
\* relationship is unset or null, and otherwise the record stored under the
\* relationship's target; it never returns an undefined value.
FindRelatedRecordResolves ==
  queried.expression.op = "findRelatedRecord" =>
    LET data == currentData(cache, queried.expression.record,
                            queried.expression.relationship)
    IN /\ queried.error = NoError
       /\ queried.data # UndefinedRecord
       /\ queried.data = IF data.tag = "one" THEN getRecord(cache, data.one)
                         ELSE NullRecord

WithoutTarget(data, x) ==
  IF data.tag = "one" /\ data.one = x THEN DataNull
  ELSE IF data.tag = "many"
  THEN DataMany(SelectSeq(data.many, LAMBDA m : m # x))
  ELSE data

\* the record with x taken out of its relationships that declare an inverse
Cascaded(record, x) ==
  [record EXCEPT !.relationships =
     [r \in DOMAIN record.relationships |->
        IF DeclaresInverse(record.type, r)
        THEN WithoutTarget(record.relationships[r], x)
        ELSE record.relationships[r]]]

ReplacedStored ==
  /\ SingleOperation("replaceRecord")
  /\ getRecord(run.pre, run.operations[1].record) # UndefinedRecord
  /\ run.error = NoError

\* C27 (replaceRecord keeps the inverse index of untouched relationships):
\* after patch(replaceRecord(r)) on a stored record c, every target b of
\* every relationship R with a declared inverse of the merged stored record,
\* those that r does not mention included, has the back-ref (c, R) in
\* getInverselyRelatedRecords(b).
ReplaceRecordKeepsIndex ==
  ReplacedStored =>
    \A R \in ModelRelationships(run.operations[1].record.type) :
       \A b \in Identities :
          (/\ DeclaresInverse(run.operations[1].record.type, R)
           /\ Names(cache, run.operations[1].record, R, b))
            => HasBackRef(cache, b,
                          cloneRecordIdentity(run.operations[1].record), R)

(***************************************************************************)
(* The content of the inverse-relationship index                           *)
(***************************************************************************)
\* C28 (no duplicate back-refs): after any sequence of completed patches,
\* no back-ref list of the inverse index holds the same (owner identity,
\* relationship name) pair more than once.
NoDuplicateBackRefs ==
  ~raised =>
    \A i \in DOMAIN cache.inverseRelationships :
       \A k, l \in 1..Len(cache.inverseRelationships[i]) :
          (k # l) =>
            \/ cache.inverseRelationships[i][k].record
                 # cache.inverseRelationships[i][l].record
            \/ cache.inverseRelationships[i][k].relationship
                 # cache.inverseRelationships[i][l].relationship

\* C29 (the inverse index holds only relationships with a declared
\* inverse): after any sequence of patches, every back-ref (a, R) stored in
\* the inverse index has a relationship R whose declaration on a's model
\* names an inverse.
OnlyDeclaredInverses ==
  \A i \in DOMAIN cache.inverseRelationships :
     \A k \in 1..Len(cache.inverseRelationships[i]) :
        DeclaresInverse(cache.inverseRelationships[i][k].record.type,
                        cache.inverseRelationships[i][k].relationship)

(***************************************************************************)
(* The inverse of replaceRecord                                            *)
(***************************************************************************)
\* the fields of the grouping of r whose value differs from c's, with c's
\* value, or null when c lacks the field
FieldDelta(r, c) ==
  [f \in {g \in DOMAIN r : g \notin DOMAIN c \/ c[g] # r[g]} |->
     IF f \in DOMAIN c /\ c[f] # Undefined THEN c[f] ELSE Null]

\* the relationship fields of r whose data differs from c's: as sets of
\* identities for a list, as identities otherwise; with c's data, or null
\* when c lacks the relationship
RelationshipDelta(r, c) ==
  [f \in {g \in DOMAIN r.relationships :
            IF isArray(r.relationships[g])
            THEN Range(Targets(deepGetData(c, g)))
                   # Range(r.relationships[g].many)
            ELSE Targets(deepGetData(c, g)) # Targets(r.relationships[g])} |->
     IF deepGetData(c, f) = DataUndefined THEN DataNull
     ELSE deepGetData(c, f)]

\* the record d of the delta inverse
Delta(r, c) ==
  Rec(r.type, r.id, FieldDelta(r.keys, c.keys),
      FieldDelta(r.attributes, c.attributes), RelationshipDelta(r, c))

\* C30 (the inverse of replaceRecord is a minimal delta): when a record c
\* with r's identity is stored, the inverse of replaceRecord(r) is
\* replaceRecord(d), d holding exactly the attribute and key fields of r
\* whose value differs from c's and exactly the relationship fields of r
\* whose data differs from c's, each with c's value; when no field differs
\* there is no inverse and the store is left as it was; when c is absent the
\* inverse is removeRecord of r's identity.
ReplaceRecordInverseDelta ==
  SingleOperation("replaceRecord") =>
    LET r == run.operations[1].record
        c == getRecord(run.pre, r)
    IN IF c = UndefinedRecord
       THEN run.calls[1].inverse = RemoveRecord(cloneRecordIdentity(r))
       ELSE IF Delta(r, c) = BareRecord(r)
       THEN /\ run.calls[1].inverse = NoOperation
            /\ run.inverse = <<>>
            /\ run.error = NoError
            /\ cache = run.pre
       ELSE /\ run.calls[1].inverse = ReplaceRecord(Delta(r, c))
            /\ run.error = NoError

(***************************************************************************)
(* The inverse of addRecord                                                *)
(***************************************************************************)
\* C31 (the inverse of addRecord has three cases): when no record with r's
\* identity is stored the inverse of addRecord(r) is removeRecord of r's
\* identity; when the stored record equals r exactly there is no inverse
\* and the patch is a no-op; otherwise the inverse is replaceRecord(current)
\* and the stored record becomes r, overwritten and not merged.
AddRecordInverse ==
  SingleOperation("addRecord") =>
    LET r == run.operations[1].record
        c == getRecord(run.pre, r)
    IN /\ run.error = NoError
       /\ IF c = UndefinedRecord
          THEN run.calls[1].inverse = RemoveRecord(cloneRecordIdentity(r))
          ELSE IF c = r
          THEN /\ run.calls[1].inverse = NoOperation
               /\ run.inverse = <<>>
               /\ cache = run.pre
          ELSE /\ run.calls[1].inverse = ReplaceRecord(c)
               /\ getRecord(cache, r) = r

\* a record was added over a stored record that has a relationship the added
\* record does not mention: a merge would have kept it
AddRecordInverseWitness ==
  /\ SingleOperation("addRecord")
  /\ getRecord(run.pre, run.operations[1].record) # UndefinedRecord
  /\ (DOMAIN getRecord(run.pre, run.operations[1].record).relationships)
       \ (DOMAIN run.operations[1].record.relationships) # {}
  /\ run.calls[1].inverse.op = "replaceRecord"
  /\ getRecord(cache, run.operations[1].record) = run.operations[1].record

(***************************************************************************)
(* addToRelatedRecords                                                     *)
(***************************************************************************)
\* no identity occurs twice in the list
NoDuplicate(list) ==
  \A j, k \in 1..Len(list) : list[j] = list[k] => j = k

\* C32 (addToRelatedRecords never duplicates a member through patch): when
\* the list of relationship rel of record id already contains related, the
\* patch of addToRelatedRecords(id, rel, related) is a no-op and the list is
\* unchanged; otherwise related is appended at the end of the list and the
\* inverse is removeFromRelatedRecords(id, rel, related); a list without
\* duplicate identity before the patch has none after it.
AddToRelatedRecordsNoDuplicate ==
  SingleOperation("addToRelatedRecords") =>
    LET op == run.operations[1]
        old == getRelatedRecords(run.pre, op.record, op.relationship)
        new == getRelatedRecords(cache, op.record, op.relationship)
    IN /\ run.error = NoError
       /\ IF op.relatedRecord \in Range(old)
          THEN /\ run.calls[1].inverse = NoOperation
               /\ run.inverse = <<>>
               /\ cache = run.pre
               /\ new = old
          ELSE /\ run.calls[1].inverse =
                    RemoveFromRelatedRecords(cloneRecordIdentity(op.record),
                                             op.relationship,
                                             op.relatedRecord)
               /\ new = Append(old, op.relatedRecord)
       /\ NoDuplicate(old) => NoDuplicate(new)

\* a member was added to a list of more than one member that contains it
AddToRelatedRecordsNoDuplicateWitness ==
  /\ SingleOperation("addToRelatedRecords")
  /\ run.operations[1].relatedRecord
       \in Range(getRelatedRecords(run.pre, run.operations[1].record,
                                   run.operations[1].relationship))
  /\ Len(getRelatedRecords(cache, run.operations[1].record,
                           run.operations[1].relationship)) > 1

(***************************************************************************)
(* replaceRelatedRecords, with lists in which an identity may occur more   *)
(* than once                                                               *)
(***************************************************************************)
MaxListLen == 3

\* the lists of moons of at most MaxListLen members
MoonLists == UNION {[1..k -> {Io, Europa}] : k \in 0..MaxListLen}

ListInputs == {<<ReplaceRelatedRecords(Jupiter, "moons", l)>> : l \in MoonLists}

ListNext ==
  \/ \E operations \in ListInputs : Patch(operations)
  \/ PatchInverse

ListSpec == Init /\ [][ListNext]_vars

\* the number of occurrences of x in the list
Count(list, x) == Cardinality({k \in 1..Len(list) : list[k] = x})

\* the lists hold the same identities with the same multiplicities
SameMultiset(a, b) ==
  \A x \in Range(a) \cup Range(b) : Count(a, x) = Count(b, x)

\* C33 (replaceRelatedRecords is a no-op exactly under multiset equality):
\* the patch of replaceRelatedRecords(id, rel, L) has no inverse and changes
\* nothing if and only if the current list and L hold the same identities
\* with the same multiplicities, order ignored; otherwise the inverse is
\* replaceRelatedRecords(id, rel, current list).
ReplaceRelatedRecordsMultiset ==
  SingleOperation("replaceRelatedRecords") =>
    LET op == run.operations[1]
        current == getRelatedRecords(run.pre, op.record, op.relationship)
    IN /\ run.error = NoError
       /\ IF SameMultiset(current, op.relatedRecords)
          THEN /\ run.calls[1].inverse = NoOperation
               /\ run.inverse = <<>>
               /\ cache = run.pre
          ELSE run.calls[1].inverse =
                 ReplaceRelatedRecords(cloneRecordIdentity(op.record),
                                       op.relationship, current)

(***************************************************************************)
(* The relatedRecord filter                                                *)
(***************************************************************************)
\* C34 (the relatedRecord filter is total): for every stored record the
\* filter relatedRecord(name, equal, expected) of findRecords evaluates
\* without raising, to true exactly when the current hasOne target of the
\* record is expected or a member of the expected list, and to false for a
\* record whose relationship is unset or whose data is null.
RelatedRecordFilterTotal ==
  LET e == queried.expression
  IN (/\ e.op = "findRecords"
      /\ Len(e.filter) = 1
      /\ e.filter[1].kind = "relatedRecord"
      /\ e.filter[1].op = "equal"
      /\ e.sort = <<>>
      /\ e.page = <<>>)
       => /\ queried.error = NoError
          /\ Range(queried.data)
               = {record \in getRecords(cache, e.type) :
                    getRelatedRecord(cache, record, e.filter[1].field)
                      \in Range(e.filter[1].records)}

(***************************************************************************)
(* The inverse patch operators, called on their own                        *)
(***************************************************************************)
\* a faulty variant of inverseTransform: the patch operator is applied to
\* the cache while the inverse is computed
inverseTransform_applied(c, operation) ==
  [c |-> CacheOf(PatchOperators(c, operation).c),
   inverse |-> InversePatchOperators(c, operation)]

\* inverseTransform(this, operation): the cache once the operator has
\* returned or raised, and what it returned or raised.  The operators call
\* getRecord, getRelatedRecord, getRelatedRecords and relatedRecordsInclude
\* and nothing else of the cache.
inverseTransform(c, operation) ==
  [c |-> c, inverse |-> InversePatchOperators(c, operation)]

\* InversePatchOperators[operation.op](cache, operation)
Invert(operation) ==
  /\ patches < MaxPatches + 1
  /\ cache' = inverseTransform(cache, operation).c
  /\ run' = Run("invert", <<operation>>, cache, cache,
                [Call(Context(cache), operation, TRUE,
                      inverseTransform(cache, operation).inverse.op)
                   EXCEPT !.error =
                     inverseTransform(cache, operation).inverse.error])
  /\ patches' = patches + 1
  /\ queried' = NoQuery
  /\ UNCHANGED <<raised, base>>

InvertNext ==
  \/ \E operations \in Inputs : Patch(operations)
  \/ \E operation \in InputOperations : Invert(operation)

InvertSpec == Init /\ [][InvertNext]_vars

RECURSIVE Ancestors(_)
\* the calls of _applyOperation that call n is nested in
Ancestors(n) ==
  IF run.calls[n].parent = 0 THEN {}
  ELSE {run.calls[n].parent} \cup Ancestors(run.calls[n].parent)

\* C36 (termination): with the default processors every patch of a finite
\* batch over a finite store terminates: the recursion through the
\* sub-operations that the processors inject ends below the bound on the
\* calls of _applyOperation.  Mutually inverse relationships do not make
\* sub-operations re-inject each other forever: an addToRelatedRecords or
\* removeFromRelatedRecords nested in a call of the same operation is a
\* no-op, and no operation takes effect nested in two calls of the same
\* operation.
PatchTerminates ==
  /\ run.error # "Diverged"
  /\ Len(run.calls) < MaxOperations
  /\ \A n \in Calls : \A m \in Ancestors(n) :
        run.calls[m].operation = run.calls[n].operation =>
          /\ run.calls[n].operation.op
               \in {"addToRelatedRecords", "removeFromRelatedRecords"}
               => ~Effective(n)
          /\ \A k \in Ancestors(m) :
                run.calls[k].operation = run.calls[n].operation
                  => ~Effective(n)

\* a sub-operation re-injected the operation it is nested in, which was then
\* a no-op: the recursion through the two sides of a relationship stopped
PatchTerminatesWitness ==
  \E n \in Calls :
     /\ ~Effective(n)
     /\ run.error = NoError
     /\ \E m \in Ancestors(n) :
           /\ run.calls[m].operation = run.calls[n].operation
           /\ Effective(m)
           /\ run.calls[n].parent # m

(***************************************************************************)
(* The order of a batch                                                    *)
(***************************************************************************)
\* C37 (depth-first batch order): the operations of a batch are applied in
\* array order, and every step of operation i and of the sub-operations
\* that its before, after and finally hooks injected, recursively, has
\* happened before the validation of operation i + 1 begins.
DepthFirstOrder ==
  run.kind # "none" =>
    /\ run.error = NoError => Len(PrimaryCalls) = Len(run.operations)
    /\ Len(PrimaryCalls) <= Len(run.operations)
    /\ \A j \in 1..Len(PrimaryCalls) :
          run.calls[PrimaryCalls[j]].operation = run.operations[j]
    /\ \A j \in 1..(Len(PrimaryCalls) - 1) :
          \A i \in 1..Len(run.log) :
             (\/ run.log[i][2] = PrimaryCalls[j]
              \/ PrimaryCalls[j] \in Ancestors(run.log[i][2]))
               => i < Pos(<<"validate", PrimaryCalls[j + 1], 1>>)

\* a batch whose first operation injected a sub-operation that injected one
\* of its own in a finally step, followed by an operation that took effect
DepthFirstOrderWitness ==
  /\ run.kind = "patch" /\ run.error = NoError
  /\ Len(run.operations) > 1
  /\ Effective(PrimaryCalls[2])
  /\ \E n, m \in Calls :
        /\ run.calls[n].parent = 1
        /\ run.calls[m].parent = n
        /\ Effective(m)
        /\ m < PrimaryCalls[2]

(***************************************************************************)
(* replaceRecord with a record that has no relationships                   *)
(***************************************************************************)
\* C38 (attribute-only replaceRecord does not touch the inverse index):
\* patch(replaceRecord(r)), where r carries only attributes and keys and no
\* relationships, leaves getInverselyRelatedRecords(y) as it was before the
\* patch for every identity y, the identity of r included.
AttributeOnlyReplaceKeepsIndex ==
  (/\ SingleOperation("replaceRecord")
   /\ run.kind = "patch"
   /\ run.operations[1].record.relationships = EmptyMap)
    => \A y \in Identities :
          getInverselyRelatedRecords(cache, y)
            = getInverselyRelatedRecords(run.pre, y)

====
